---- MODULE Spec2Model ----
(***************************************************************************)
(* A model of conductor's session engine and session registry.             *)
(*                                                                         *)
(* Spec     one Session (sessions/session.py) with its PTY, its rolling    *)
(*          buffer, its subscriber queues, the exit monitor, hard kill,    *)
(*          and the stream handlers of api/routes.py that consume it.      *)
(*          Both read drivers are modelled: the Unix fd reader that runs   *)
(*          on the event loop and the Windows reader thread that posts     *)
(*          its chunks onto the loop.                                      *)
(* SpecSess the same Session without stream connections, with output that  *)
(*          carries resume tokens, graceful stop, and admin changes of     *)
(*          the buffer cap (utils/config.py).                              *)
(* SpecReg  the SessionRegistry (sessions/registry.py): the live map, the  *)
(*          resumable map and the metadata files on disk, with each        *)
(*          Session reduced to the fields the registry reads.              *)
(*                                                                         *)
(* PTY output is a stream of bytes numbered 1, 2, 3, ... in the order the  *)
(* child writes them, so a chunk is a sequence of consecutive numbers and  *)
(* order, gaps and duplicates are visible in every queue and buffer.       *)
(***************************************************************************)
EXTENDS Integers, Sequences, FiniteSets, TLC

\* ------------------------------------------------------------------ bounds

\* Number of bytes the child writes to the PTY in one run of the model.
MaxBytes == 3

\* Session objects the registry creates between two starts of the daemon.
MaxSessions == 3

\* Words a user's command has after its executable, and resume cycles.
MaxArgs == 3
MaxCycles == 2
\* Commits an agent makes on its session branch, and merge calls.
MaxAhead == 2
MaxMerges == 2
\* Commits on the repository's HEAD, and ticks of the clock (days).
MaxHead == 1
MaxTime == 1
\* Documents written to the state file.
MaxSaves == 2

\* ------------------------------------------------------- program constants
\* (scaled down: the source values are 1000, 65536, 4096 and 1_000_000)

\* asyncio.Queue(maxsize=1000)
QUEUE_MAXSIZE == 2
\* os.read(self.pty.master_fd, 65536)
READ_SIZE == 2
\* self.buffer[-4096:]
TAIL_BYTES == 2
\* BUFFER_MAX_BYTES = 1_000_000
BUFFER_MAX_DEFAULT == 3

\* Values an admin may store in buffer_max_bytes.
CapValues == {1, 2, 3}

\* Stream connections (each one WebSocket, each with its own queue).
Clients == {"c1", "c2"}

\* The connections whose deliveries are recorded for the properties; the
\* other connection is a second consumer of the same session.
Watched == {"c1"}

\* Queue items that are not PTY chunks.
NoneItem == <<>>            \* the None end-of-stream sentinel
ExitedText == <<0>>         \* b"\r\n[Process exited]\r\n"

\* Python's None for resume_id; a captured token is <<its byte number>>.
Nil == <<>>

\* Session names known to the registry, and the Session objects it creates.
Names == {"a", "b"}
Sids == 1..MaxSessions

VARIABLES
    \* ---- Session / PTY (Spec)
    drv,               \* "unix" (add_reader) or "win" (reader thread)
    status,            \* Session.status
    resume_id,         \* Session.resume_id: Nil or the token it captured
    buffer,            \* Session.buffer
    subscribers,       \* Session.subscribers (queues named by their connection)
    queue,             \* the asyncio.Queue of each connection
    BUFFER_MAX_BYTES,  \* cfg.BUFFER_MAX_BYTES
    procAlive,         \* pty.poll() is None
    ptyOut,            \* bytes written by the child and not yet read
    nWritten,          \* bytes written by the child so far
    tok,               \* the bytes that hold a resume token
    readerOn,          \* the fd reader is registered with the loop (unix)
    ptyClosed,         \* pty.closed
    posted,            \* callbacks posted by call_soon_threadsafe (win)
    owed,              \* posted callbacks that are ahead of the monitor's
                       \* wake-up from sleep(0.1) in the loop's FIFO order
    monPc,             \* position of _monitor_process
    killPc,            \* position of registry.remove -> kill -> cleanup
    escPc,             \* the escalation timer: "none", "armed" or "fired"
    escKills,          \* SIGTERMs the escalation timer has sent to the child
    cpc,               \* position of each stream handler
    \* ---- what each stream connection has seen (read by the properties)
    snapEnd,           \* last byte of the get_buffer() snapshot it sent, or 0
    lastLive,          \* last byte of the latest PTY chunk it dequeued, or 0
    readAt,            \* bytes read from the PTY when it subscribed
    subAt,             \* bytes passed to _broadcast when it subscribed
    closedFor,         \* subscribers at the time of _broadcast_close
    \* ---- SessionRegistry (SpecReg)
    sessions,          \* registry.sessions: name -> Session object, 0 = absent
    resumable,         \* registry.resumable: name -> metadata, Nil = absent
    disk,              \* SESSIONS_DIR/<name>.json: its content, Nil = no file
    sobj,              \* the Session objects: name, status, resume_id, monitor
    removing,          \* calls of registry.remove suspended in session.cleanup()
    waitFor,           \* per Session: the suspended removes that resume before
                       \* its monitor can report an exit
    reply,             \* what the registry call of this step answered, or Nil
    \* ---- the command of a session across resumes (SpecResume)
    policy,            \* the ALLOWED_COMMANDS entry: "token" or "command"
    original,          \* the command the first session was created with
    command,           \* Session.command of the current session, as words
    lastToken,         \* the resume_id captured at the latest exit, or ""
    cycles,            \* exit-with-token -> resume cycles so far
    \* ---- one session worktree and its repository (SpecWt)
    wt,                \* state record, directories and refs: see NewWorktree
    mres,              \* the MergeResult of the latest merge call, or Nil
    nMerges,           \* merge calls so far
    \* ---- the worktree manager and its state store (SpecMgr)
    mgr,               \* state store, directories and branches: see EmptyRepo
    held,              \* per session name the WorktreeInfo object its caller holds
    live,              \* WorktreeManager._active_sessions
    head,              \* the commit HEAD of the repository is at
    now,               \* time.time(), in days
    mgrOut,            \* what the manager call of this step returned, or Nil
    \* ---- the state file ~/.conductor/worktrees.json (SpecFile)
    wfile,             \* content of WORKTREES_FILE, or Missing
    tmpfile,           \* content of the mkstemp file of the save under way, or Missing
    leftover,          \* .tmp files that no save owns any more
    savePc,            \* where save() is: "idle", "opened", "dumped"
    saveData,          \* the document save() was given
    saveOut,           \* how the last save() ended: Nil, "ok", "raised", "crashed"
    saveOld,           \* content of WORKTREES_FILE when the last save() began
    nSaves,            \* documents handed to save() so far
    rd,                \* the last load(): what it read and what it returned
    \* ---- the child of the session (SpecStop)
    termHandler,       \* what the child does with SIGTERM: "default" or "ignore"
    \* ---- worker threads of the executor inside a manager call (SpecThr)
    thr,               \* per thread: where its state-store write is, and the
                       \* document it loaded
    want,              \* per session the record its latest finished write left
    refs,              \* the refs of the repository two merges run in: the
                       \* target branch, the session branches, the temporary ones
    \* ---- the terminal size of a session (SpecSize)
    rows,              \* Session.rows
    cols,              \* Session.cols
    resize_source,     \* Session.resize_source, "unset" for None
    ptySize,           \* <<rows, cols>> of the latest TIOCSWINSZ on the PTY
    ptyState           \* the PTY of the session: "none", "open" or "closed"

sessVars == <<drv, status, resume_id, buffer, subscribers, queue,
              BUFFER_MAX_BYTES, procAlive, ptyOut, nWritten, tok, readerOn,
              ptyClosed, posted, owed, monPc, killPc, escPc, escKills, cpc>>
histVars == <<snapEnd, lastLive, readAt, subAt, closedFor>>

regVars == <<sessions, resumable, disk, sobj, removing, waitFor, reply>>

cmdVars == <<policy, original, command, lastToken, cycles>>

wtVars == <<wt, mres, nMerges>>

mgrVars == <<mgr, held, live, head, now, mgrOut>>

fileVars ==
    <<wfile, tmpfile, leftover, savePc, saveData, saveOut, saveOld, nSaves, rd>>

childVars == <<termHandler>>

thrVars == <<thr, want, refs>>

sizeVars == <<rows, cols, resize_source, ptySize, ptyState>>

vars == <<sessVars, histVars, regVars, cmdVars, wtVars, mgrVars, fileVars,
          childVars, sizeVars, thrVars>>

\* ----------------------------------------------------------------- helpers

Last(s) == s[Len(s)]

Min(a, b) == IF a < b THEN a ELSE b

\* The last n elements of s (s[-n:]).
Tail_n(s, n) == SubSeq(s, Len(s) - Min(n, Len(s)) + 1, Len(s))

\* Consecutive byte numbers, no gap and no repeat.
Contiguous(s) == \A i \in 1..(Len(s) - 1) : s[i + 1] = s[i] + 1

\* A queue item that is a chunk of PTY output.
IsChunk(item) == item # <<>> /\ item[1] > 0

\* What repeated os.read(fd, 65536) calls return for the bytes in s.
RECURSIVE ReadChunks(_)
ReadChunks(s) ==
    IF s = <<>> THEN <<>>
    ELSE <<SubSeq(s, 1, Min(READ_SIZE, Len(s)))>>
         \o ReadChunks(SubSeq(s, Min(READ_SIZE, Len(s)) + 1, Len(s)))

\* ------------------------------------------------------ buffer & broadcast

\* Session._append_buffer
AppendBuffer(buf, data, cap) ==
    LET ext == buf \o data
    IN IF Len(ext) > cap THEN SubSeq(ext, Len(ext) - cap + 1, Len(ext)) ELSE ext

\* A queue that takes the newest item at its head instead of its end.
PutNowaitFront(q, item) ==
    IF Len(q) < QUEUE_MAXSIZE THEN <<item>> \o q ELSE q

\* queue.put_nowait with QueueFull swallowed
PutNowait(q, item) ==
    IF Len(q) < QUEUE_MAXSIZE THEN Append(q, item) ELSE q

\* A fan-out that gives up as soon as one subscriber's queue is full.
BroadcastAbort(qs, subs, item) ==
    [c \in Clients |->
        IF c \in subs /\ \A d \in subs : Len(qs[d]) < QUEUE_MAXSIZE
        THEN Append(qs[c], item) ELSE qs[c]]

\* Session._broadcast and Session._broadcast_close: for queue in list(subs)
Broadcast(qs, subs, item) ==
    [c \in Clients |-> IF c \in subs THEN PutNowait(qs[c], item) ELSE qs[c]]

\* Session._extract_resume_id: the first match in the last 4 KiB, if any
ExtractResumeId(buf, old) ==
    LET tail == Tail_n(buf, TAIL_BYTES)
        hits == {i \in 1..Len(tail) : tail[i] \in tok}
    IN IF hits = {} THEN old
       ELSE <<tail[CHOOSE i \in hits : \A j \in hits : i <= j]>>

\* Several fan-outs in a row (the final drain).
RECURSIVE BroadcastAll(_, _, _)
BroadcastAll(qs, subs, items) ==
    IF items = <<>> THEN qs
    ELSE BroadcastAll(Broadcast(qs, subs, Head(items)), subs, Tail(items))

RECURSIVE AppendAll(_, _, _)
AppendAll(buf, chunks, cap) ==
    IF chunks = <<>> THEN buf
    ELSE AppendAll(AppendBuffer(buf, Head(chunks), cap), Tail(chunks), cap)

\* ----------------------------------------------------------------- counts

\* Bytes in the callbacks of the given kind that are still posted.
RECURSIVE PostedBytes(_, _)
PostedBytes(ps, kind) ==
    IF ps = <<>> THEN 0
    ELSE (IF Head(ps)[1] = kind THEN Len(Head(ps)[2]) ELSE 0)
         + PostedBytes(Tail(ps), kind)

\* Bytes read from the PTY so far (by os.read or pty.read).
nRead == nWritten - Len(ptyOut)

\* Bytes passed to _append_buffer and to _broadcast so far.
nAppended == nRead - PostedBytes(posted, "append")
nBroadcast == nRead - PostedBytes(posted, "broadcast")

\* --------------------------------------------------------------- the child

\* The child writes one more byte to its terminal; the byte may complete a
\* resume token.
ChildWrite(isTok) ==
    /\ UNCHANGED <<regVars, cmdVars, wtVars, mgrVars, fileVars, childVars, sizeVars, thrVars>>
    /\ procAlive
    /\ ~ptyClosed
    /\ nWritten < MaxBytes
    /\ tok' = IF isTok THEN tok \cup {nWritten + 1} ELSE tok
    /\ nWritten' = nWritten + 1
    /\ ptyOut' = Append(ptyOut, nWritten + 1)
    /\ UNCHANGED <<drv, status, resume_id, buffer, subscribers, queue,
                   BUFFER_MAX_BYTES, procAlive, readerOn, ptyClosed, posted, owed,
                   monPc, killPc, escPc, escKills, cpc>>
    /\ UNCHANGED histVars

\* The child exits (on its own, or after SIGINT / SIGTERM / a stop sequence).
ChildExit ==
    /\ UNCHANGED <<regVars, cmdVars, wtVars, mgrVars, fileVars, childVars, sizeVars, thrVars>>
    /\ procAlive
    /\ procAlive' = FALSE
    /\ UNCHANGED <<drv, status, resume_id, buffer, subscribers, queue,
                   BUFFER_MAX_BYTES, ptyOut, nWritten, tok, readerOn,
                   ptyClosed, posted, owed, monPc, killPc, escPc, escKills, cpc>>
    /\ UNCHANGED histVars

\* ------------------------------------------------------------ read drivers

\* Session._on_readable, data branch
OnReadable ==
    /\ UNCHANGED <<regVars, cmdVars, wtVars, mgrVars, fileVars, childVars, sizeVars, thrVars>>
    /\ drv = "unix"
    /\ readerOn
    /\ ptyOut # <<>>
    /\ LET n == Min(READ_SIZE, Len(ptyOut))
           data == SubSeq(ptyOut, 1, n)
       IN /\ ptyOut' = SubSeq(ptyOut, n + 1, Len(ptyOut))
          /\ buffer' = AppendBuffer(buffer, data, BUFFER_MAX_BYTES)
          /\ queue' = Broadcast(queue, subscribers, data)
    /\ UNCHANGED <<drv, status, resume_id, subscribers, BUFFER_MAX_BYTES,
                   procAlive, nWritten, tok, readerOn, ptyClosed, posted, owed,
                   monPc, killPc, escPc, escKills, cpc>>
    /\ UNCHANGED histVars

\* Session._on_readable, OSError branch: EIO once the slave side is closed
OnReadableEIO ==
    /\ UNCHANGED <<regVars, cmdVars, wtVars, mgrVars, fileVars, childVars, sizeVars, thrVars>>
    /\ drv = "unix"
    /\ readerOn
    /\ ptyOut = <<>>
    /\ ~procAlive
    /\ readerOn' = FALSE
    /\ UNCHANGED <<drv, status, resume_id, buffer, subscribers, queue,
                   BUFFER_MAX_BYTES, procAlive, ptyOut, nWritten, tok,
                   ptyClosed, posted, owed, monPc, killPc, escPc, escKills, cpc>>
    /\ UNCHANGED histVars

\* Session._win_read_loop: one turn of the reader thread
WinReadLoop ==
    /\ UNCHANGED <<regVars, cmdVars, wtVars, mgrVars, fileVars, childVars, sizeVars, thrVars>>
    /\ drv = "win"
    /\ ~ptyClosed
    /\ ptyOut # <<>>
    /\ LET n == Min(READ_SIZE, Len(ptyOut))
           data == SubSeq(ptyOut, 1, n)
       IN /\ ptyOut' = SubSeq(ptyOut, n + 1, Len(ptyOut))
          /\ posted' = posted \o << <<"append", data>>, <<"broadcast", data>> >>
    /\ UNCHANGED owed
    /\ UNCHANGED <<drv, status, resume_id, buffer, subscribers, queue,
                   BUFFER_MAX_BYTES, procAlive, nWritten, tok, readerOn,
                   ptyClosed, monPc, killPc, escPc, escKills, cpc>>
    /\ UNCHANGED histVars

\* The event loop runs the next callback the reader thread posted.
RunPosted ==
    /\ UNCHANGED <<regVars, cmdVars, wtVars, mgrVars, fileVars, childVars, sizeVars, thrVars>>
    /\ posted # <<>>
    /\ posted' = Tail(posted)
    /\ owed' = IF owed > 0 THEN owed - 1 ELSE 0
    /\ LET kind == Head(posted)[1]
           data == Head(posted)[2]
       IN IF kind = "append"
          THEN /\ buffer' = AppendBuffer(buffer, data, BUFFER_MAX_BYTES)
               /\ UNCHANGED queue
          ELSE /\ queue' = Broadcast(queue, subscribers, data)
               /\ UNCHANGED buffer
    /\ UNCHANGED <<drv, status, resume_id, subscribers, BUFFER_MAX_BYTES,
                   procAlive, ptyOut, nWritten, tok, readerOn, ptyClosed,
                   monPc, killPc, escPc, escKills, cpc>>
    /\ UNCHANGED histVars

\* ------------------------------------------------------------- the session

\* The session is still the registry's live entry for its name.
InRegistry == monPc \in {"poll", "yield"} /\ killPc = "none"

\* SessionRegistry.graceful_stop -> Session.interrupt
Interrupt ==
    /\ UNCHANGED <<regVars, cmdVars, wtVars, mgrVars, fileVars, childVars, sizeVars, thrVars>>
    /\ InRegistry
    /\ status = "running"
    /\ status' = "stopping"
    /\ escPc' = "armed"
    /\ UNCHANGED <<drv, resume_id, buffer, subscribers, queue,
                   BUFFER_MAX_BYTES, procAlive, ptyOut, nWritten, tok,
                   readerOn, ptyClosed, posted, owed, monPc, killPc, escKills, cpc>>
    /\ UNCHANGED histVars

\* A timer that sends SIGTERM to whatever process is still alive.
EscalateIfAlive(st, alive) == alive

\* Session._escalate_kill: if self.status == "stopping" and poll() is None
ShouldEscalate(st, alive) == st = "stopping" /\ alive

\* PTYProcess.kill: SIGTERM to the process group if the process is alive
PtyKill(n, alive) == IF alive THEN n + 1 ELSE n

\* Session._escalate_kill after its sleep(timeout)
EscalateTimer ==
    /\ UNCHANGED <<regVars, cmdVars, wtVars, mgrVars, fileVars, childVars, sizeVars, thrVars>>
    /\ escPc = "armed"
    /\ escPc' = "fired"
    /\ escKills' = IF ShouldEscalate(status, procAlive)
                THEN PtyKill(escKills, procAlive) ELSE escKills
    /\ UNCHANGED <<drv, status, resume_id, buffer, subscribers, queue,
                   BUFFER_MAX_BYTES, procAlive, ptyOut, nWritten, tok,
                   readerOn, ptyClosed, posted, owed, monPc, killPc, cpc>>
    /\ UNCHANGED histVars

\* Session._monitor_process: poll() returned an exit code; sleep(0.1).
\* The loop runs its callbacks in FIFO order, so whatever is posted by now
\* runs before the monitor wakes up again.
MonitorPoll ==
    /\ UNCHANGED <<regVars, cmdVars, wtVars, mgrVars, fileVars, childVars, sizeVars, thrVars>>
    /\ monPc = "poll"
    /\ ~procAlive
    /\ monPc' = "yield"
    /\ owed' = Len(posted)
    /\ UNCHANGED <<drv, status, resume_id, buffer, subscribers, queue,
                   BUFFER_MAX_BYTES, procAlive, ptyOut, nWritten, tok,
                   readerOn, ptyClosed, posted, killPc, escPc, escKills, cpc>>
    /\ UNCHANGED histVars

\* What the final drain reads: everything left on Unix, nothing on Windows.
DrainChunks == IF drv = "unix" THEN ReadChunks(ptyOut) ELSE <<>>

\* Session._monitor_process after the sleep: drain, extract, publish the
\* status, broadcast the text and the sentinel, close. No await in between.
MonitorExit ==
    /\ UNCHANGED <<regVars, cmdVars, wtVars, mgrVars, fileVars, childVars, sizeVars, thrVars>>
    /\ monPc = "yield"
    /\ owed = 0
    /\ LET chunks == DrainChunks
           buf == AppendAll(buffer, chunks, BUFFER_MAX_BYTES)
           q1 == BroadcastAll(queue, subscribers, chunks)
           q2 == Broadcast(q1, subscribers, ExitedText)
       IN /\ buffer' = buf
          /\ ptyOut' = IF drv = "unix" THEN <<>> ELSE ptyOut
          /\ resume_id' = ExtractResumeId(buf, resume_id)
          /\ queue' = Broadcast(q2, subscribers, NoneItem)
    /\ status' = "exited"
    /\ closedFor' = subscribers
    /\ readerOn' = FALSE
    /\ ptyClosed' = TRUE
    /\ monPc' = "done"
    /\ UNCHANGED <<drv, subscribers, BUFFER_MAX_BYTES, procAlive, nWritten,
                   tok, posted, owed, killPc, escPc, escKills, cpc>>
    /\ UNCHANGED <<snapEnd, lastLive, readAt, subAt>>

\* A cancel() that the monitor task survives.
CancelIgnored(pc) == pc

\* Session.cleanup: self._monitor_task.cancel(), which lands at the sleep the
\* monitor is suspended in
CancelMonitor(pc) == "cancelled"

\* SessionRegistry.remove: Session.kill, then Session.cleanup up to its await
Kill ==
    /\ UNCHANGED <<regVars, cmdVars, wtVars, mgrVars, fileVars, childVars, sizeVars, thrVars>>
    /\ InRegistry
    /\ status' = "killed"
    /\ readerOn' = FALSE
    /\ queue' = Broadcast(queue, subscribers, NoneItem)
    /\ closedFor' = subscribers
    /\ monPc' = CancelMonitor(monPc)
    /\ killPc' = "cleanup"
    /\ UNCHANGED <<escPc, escKills>>
    /\ UNCHANGED <<drv, resume_id, buffer, subscribers, BUFFER_MAX_BYTES,
                   procAlive, ptyOut, nWritten, tok, ptyClosed, posted, owed, cpc>>
    /\ UNCHANGED <<snapEnd, lastLive, readAt, subAt>>

\* Session.cleanup after the cancelled monitor was awaited: pty.close()
Cleanup ==
    /\ UNCHANGED <<regVars, cmdVars, wtVars, mgrVars, fileVars, childVars, sizeVars, thrVars>>
    /\ killPc = "cleanup"
    /\ killPc' = "done"
    /\ ptyClosed' = TRUE
    /\ UNCHANGED <<escPc, escKills>>
    /\ UNCHANGED <<drv, status, resume_id, buffer, subscribers, queue,
                   BUFFER_MAX_BYTES, procAlive, ptyOut, nWritten, tok,
                   readerOn, posted, owed, monPc, cpc>>
    /\ UNCHANGED histVars

\* cfg.save_user_config with a buffer_max_bytes entry
SaveUserConfig ==
    /\ UNCHANGED <<regVars, cmdVars, wtVars, mgrVars, fileVars, childVars, sizeVars, thrVars>>
    /\ \E v \in CapValues \ {BUFFER_MAX_BYTES} : BUFFER_MAX_BYTES' = v
    /\ UNCHANGED <<drv, status, resume_id, buffer, subscribers, queue,
                   procAlive, ptyOut, nWritten, tok, readerOn, ptyClosed,
                   posted, owed, monPc, killPc, escPc, escKills, cpc>>
    /\ UNCHANGED histVars

\* --------------------------------------------------------- stream handlers

\* Session.subscribe (the queue is fresh: nothing is on it yet)
Subscribe(c) ==
    /\ subscribers' = subscribers \cup {c}
    /\ readAt' = [readAt EXCEPT ![c] = IF c \in Watched THEN nRead ELSE 0]
    /\ subAt' = [subAt EXCEPT ![c] = IF c \in Watched THEN nBroadcast ELSE 0]

\* stream_session: registry.get found the session; await ws.accept()
StreamAccept(c) ==
    /\ UNCHANGED <<regVars, cmdVars, wtVars, mgrVars, fileVars, childVars, sizeVars, thrVars>>
    /\ cpc[c] = "idle"
    /\ InRegistry
    /\ cpc' = [cpc EXCEPT ![c] = "accepted"]
    /\ UNCHANGED <<drv, status, resume_id, buffer, subscribers, queue,
                   BUFFER_MAX_BYTES, procAlive, ptyOut, nWritten, tok,
                   readerOn, ptyClosed, posted, owed, monPc, killPc, escPc, escKills>>
    /\ UNCHANGED histVars

\* _stream_raw: buffer = session.get_buffer(); a non-empty buffer is sent
\* with "await ws.send_bytes(buffer)" before the subscription, an empty one
\* is followed by session.subscribe() at once.
StreamSnapshot(c) ==
    /\ UNCHANGED <<regVars, cmdVars, wtVars, mgrVars, fileVars, childVars, sizeVars, thrVars>>
    /\ cpc[c] = "accepted"
    /\ snapEnd' = [snapEnd EXCEPT ![c] =
                     IF buffer # <<>> /\ c \in Watched THEN Last(buffer) ELSE 0]
    /\ IF buffer = <<>>
       THEN /\ Subscribe(c)
            /\ cpc' = [cpc EXCEPT ![c] = "streaming"]
       ELSE /\ cpc' = [cpc EXCEPT ![c] = "sending"]
            /\ UNCHANGED <<subscribers, readAt, subAt>>
    /\ UNCHANGED <<drv, status, resume_id, buffer, queue, BUFFER_MAX_BYTES,
                   procAlive, ptyOut, nWritten, tok, readerOn, ptyClosed,
                   posted, owed, monPc, killPc, escPc, escKills>>
    /\ UNCHANGED <<lastLive, closedFor>>

\* _stream_raw: the send returned; queue = session.subscribe()
StreamSubscribe(c) ==
    /\ UNCHANGED <<regVars, cmdVars, wtVars, mgrVars, fileVars, childVars, sizeVars, thrVars>>
    /\ cpc[c] = "sending"
    /\ Subscribe(c)
    /\ cpc' = [cpc EXCEPT ![c] = "streaming"]
    /\ UNCHANGED <<drv, status, resume_id, buffer, queue, BUFFER_MAX_BYTES,
                   procAlive, ptyOut, nWritten, tok, readerOn, ptyClosed,
                   posted, owed, monPc, killPc, escPc, escKills>>
    /\ UNCHANGED <<snapEnd, lastLive, closedFor>>

\* _stream_raw.writer: one queue.get(); None closes the socket, anything
\* else is sent to the client
WriterGet(c) ==
    /\ UNCHANGED <<regVars, cmdVars, wtVars, mgrVars, fileVars, childVars, sizeVars, thrVars>>
    /\ cpc[c] = "streaming"
    /\ queue[c] # <<>>
    /\ queue' = [queue EXCEPT ![c] = Tail(queue[c])]
    /\ cpc' = [cpc EXCEPT ![c] =
                 IF Head(queue[c]) = NoneItem THEN "closing" ELSE "streaming"]
    /\ lastLive' = [lastLive EXCEPT ![c] =
                      IF IsChunk(Head(queue[c])) /\ c \in Watched
                      THEN Last(Head(queue[c]))
                      ELSE lastLive[c]]
    /\ UNCHANGED <<drv, status, resume_id, buffer, subscribers,
                   BUFFER_MAX_BYTES, procAlive, ptyOut, nWritten, tok,
                   readerOn, ptyClosed, posted, owed, monPc, killPc, escPc, escKills>>
    /\ UNCHANGED <<snapEnd, readAt, subAt, closedFor>>

\* _stream_raw: the writer finished or the client went away; the finally
\* clause runs session.unsubscribe(queue). The queue is garbage from here
\* on and the record of the connection is dropped with it.
StreamEnd(c) ==
    /\ UNCHANGED <<regVars, cmdVars, wtVars, mgrVars, fileVars, childVars, sizeVars, thrVars>>
    /\ cpc[c] \in {"streaming", "closing"}
    /\ subscribers' = subscribers \ {c}
    /\ cpc' = [cpc EXCEPT ![c] = "closed"]
    /\ queue' = [queue EXCEPT ![c] = <<>>]
    /\ snapEnd' = [snapEnd EXCEPT ![c] = 0]
    /\ lastLive' = [lastLive EXCEPT ![c] = 0]
    /\ readAt' = [readAt EXCEPT ![c] = 0]
    /\ subAt' = [subAt EXCEPT ![c] = 0]
    /\ closedFor' = closedFor \ {c}
    /\ UNCHANGED <<drv, status, resume_id, buffer, BUFFER_MAX_BYTES,
                   procAlive, ptyOut, nWritten, tok, readerOn, ptyClosed,
                   posted, owed, monPc, killPc, escPc, escKills>>

\* ------------------------------------------------------------ the registry
\* A Session is seen here through what the registry reads of it: its name,
\* status, resume_id, whether its monitor task is still to run, and whether
\* the stop timeout has fired. A token captured by Session s is <<s>>.
\*
\* A remove suspended in "await session.cleanup()" resumes as soon as the
\* cancelled monitor task has finished, two iterations of the loop later,
\* ahead of every timer set after it was suspended. The monitor of a session
\* created in the meantime sleeps 0.1 s at least before it reports an exit,
\* so that session's exit comes after the end of those removes: waitFor.

NoSession ==
    [name |-> "", status |-> "none", rid |-> Nil, mon |-> "none", esc |-> FALSE]

\* Session.to_dict, reduced to the fields the registry and the loader read
ToDict(o) == <<o.status, o.rid>>

\* The Session object a successful create builds (Session.__init__, start)
NewSession(n) ==
    [name |-> n, status |-> "running", rid |-> Nil, mon |-> "alive", esc |-> FALSE]

FreeSids == {s \in Sids : sobj[s].status = "none"}
NewSid == CHOOSE s \in FreeSids : \A t \in FreeSids : s <= t

\* A create or resume that leaves resumable[n] where it is.
KeepResumable(res, n) == res

\* self.resumable.pop(n, None)
PopResumable(res, n) == [res EXCEPT ![n] = Nil]

\* A callback that does not write the projection of the exited session.
SaveNothing(dsk, n, meta) == dsk

\* SessionRegistry._save_metadata_dict and _save_metadata
SaveMetadataDict(dsk, n, meta) == [dsk EXCEPT ![n] = meta]

\* A remove that leaves the file of the session on disk.
KeepMetadata(dsk, n) == dsk

\* SessionRegistry._delete_metadata
DeleteMetadata(dsk, n) == [dsk EXCEPT ![n] = Nil]

\* A file whose text json.loads rejects.
Unreadable == <<"unreadable", Nil>>

\* SessionRegistry._load_resumable: the files with status exited and a token;
\* a file that does not parse raises inside the try and is passed over
LoadResumable(dsk) ==
    [n \in Names |->
        IF dsk[n] # Nil /\ dsk[n] # Unreadable
                       /\ dsk[n][2] # Nil /\ dsk[n][1] = "exited"
        THEN dsk[n] ELSE Nil]

\* SessionRegistry.create from "self.resumable.pop(name, None)" to its end,
\* on the disk dsk and with the removes in `pending` still suspended;
\* ok = FALSE is a spawn that raises (command not found).
CreateRest(n, ok, dsk, pending) ==
    /\ ok => FreeSids # {}
    /\ resumable' = PopResumable(resumable, n)
    /\ IF ok
       THEN /\ sobj' = [sobj EXCEPT ![NewSid] = NewSession(n)]
            /\ sessions' = [sessions EXCEPT ![n] = NewSid]
            /\ disk' = SaveMetadataDict(dsk, n, ToDict(NewSession(n)))
            /\ waitFor' = [t \in Sids |-> IF t = NewSid THEN pending
                                          ELSE waitFor[t] \cap pending]
       ELSE /\ disk' = dsk
            /\ waitFor' = [t \in Sids |-> waitFor[t] \cap pending]
            /\ UNCHANGED <<sessions, sobj>>

\* SessionRegistry.remove up to its suspension in "await session.cleanup()":
\* the session is popped, killed and its monitor task cancelled. `then` is
\* what runs after the suspension: the end of remove ("remove") or the end
\* of remove followed by the rest of create ("create").
RemoveBegin(n, then) ==
    LET s == sessions[n]
    IN /\ sessions' = [sessions EXCEPT ![n] = 0]
       /\ sobj' = [sobj EXCEPT ![s].status = "killed",
                               ![s].mon = IF @ = "alive" THEN "cancelled" ELSE @,
                               ![s].esc = FALSE]
       /\ waitFor' = [waitFor EXCEPT ![s] = {}]
       /\ removing' = removing \cup {<<s, then>>}

\* A create that evicts whatever session is live under the name.
CreateBranchEvict(n) ==
    IF sessions[n] # 0 THEN "evict" ELSE "new"

\* SessionRegistry.create, its first lines: a live running session under the
\* name is a conflict, a live session in another status is removed first
CreateBranch(n) ==
    IF sessions[n] # 0
    THEN IF sobj[sessions[n]].status = "running" THEN "conflict" ELSE "evict"
    ELSE "new"

\* SessionRegistry.create on a running live name: raise ValueError, which
\* create_session answers with 409
CreateConflict(n) ==
    /\ UNCHANGED <<sessVars, histVars, cmdVars, wtVars, mgrVars, fileVars, childVars, sizeVars, thrVars>>
    /\ sessions[n] # 0
    /\ CreateBranch(n) = "conflict"
    /\ reply' = <<"create", n, "conflict">>
    /\ UNCHANGED <<sessions, resumable, disk, sobj, removing, waitFor>>

\* SessionRegistry.create on a name that is not live
Create(n, ok) ==
    /\ UNCHANGED <<sessVars, histVars, cmdVars, wtVars, mgrVars, fileVars, childVars, sizeVars, thrVars>>
    /\ CreateBranch(n) = "new"
    /\ reply' = <<"create", n, IF ok THEN "created" ELSE "failed">>
    /\ CreateRest(n, ok, disk, removing)
    /\ UNCHANGED removing

\* SessionRegistry.create on a live name whose session is not running: it
\* awaits self.remove(name) first. (On a running one it raises ValueError.)
CreateOverStopped(n) ==
    /\ UNCHANGED <<sessVars, histVars, cmdVars, wtVars, mgrVars, fileVars, childVars, sizeVars, thrVars>>
    /\ sessions[n] # 0
    /\ CreateBranch(n) = "evict"
    /\ reply' = <<"create", n, "evicting">>
    /\ RemoveBegin(n, "create")
    /\ UNCHANGED <<resumable, disk>>

\* SessionRegistry.remove (DELETE /sessions/{id}, stop with mode kill)
Remove(n) ==
    /\ UNCHANGED <<sessVars, histVars, cmdVars, wtVars, mgrVars, fileVars, childVars, sizeVars, thrVars>>
    /\ reply' = Nil
    /\ sessions[n] # 0
    /\ RemoveBegin(n, "remove")
    /\ UNCHANGED <<resumable, disk>>

\* SessionRegistry.remove after the suspension: _delete_metadata, and for a
\* remove called from create the rest of create
RemoveEnd(s, then, ok) ==
    /\ UNCHANGED <<sessVars, histVars, cmdVars, wtVars, mgrVars, fileVars, childVars, sizeVars, thrVars>>
    /\ reply' = Nil
    /\ <<s, then>> \in removing
    /\ removing' = removing \ {<<s, then>>}
    /\ IF then = "create"
       THEN CreateRest(sobj[s].name, ok, DeleteMetadata(disk, sobj[s].name),
                       removing \ {<<s, then>>})
       ELSE /\ ok
            /\ disk' = DeleteMetadata(disk, sobj[s].name)
            /\ waitFor' = [t \in Sids |-> waitFor[t] \ {<<s, then>>}]
            /\ UNCHANGED <<sessions, resumable, sobj>>

\* What resume answers on a resumable name: the session create built, the
\* error the spawn raised, or what create does about a live session.
ResumeOutcome(n, ok) ==
    IF sessions[n] = 0
    THEN IF ok THEN "resumed" ELSE "failed"
    ELSE IF sobj[sessions[n]].status = "running" THEN "conflict" ELSE "evicting"

\* SessionRegistry.resume on a name with no resumable entry: the live
\* session of the name is looked at (it stands in only when it is exited
\* with a token and its callback has not run), then ValueError, which
\* resume_session answers with 404
ResumeNotFound(n) ==
    /\ UNCHANGED <<sessVars, histVars, cmdVars, wtVars, mgrVars, fileVars, childVars, sizeVars, thrVars>>
    /\ resumable[n] = Nil
    /\ ~(/\ sessions[n] # 0
         /\ sobj[sessions[n]].status = "exited"
         /\ sobj[sessions[n]].rid # Nil)
    /\ reply' = <<"resume", n, "notfound">>
    /\ UNCHANGED <<sessions, resumable, disk, sobj, removing, waitFor>>

\* SessionRegistry.resume on a resumable name: pop the entry, delete the
\* file, then create under the same name (which looks at the live map again)
ResumeRun(n, ok) ==
    /\ resumable[n] # Nil
    /\ IF sessions[n] = 0
       THEN /\ CreateRest(n, ok, DeleteMetadata(disk, n), removing)
            /\ UNCHANGED removing
       ELSE /\ ok
            /\ resumable' = PopResumable(resumable, n)
            /\ disk' = DeleteMetadata(disk, n)
            /\ IF sobj[sessions[n]].status = "running"
               THEN UNCHANGED <<sessions, sobj, removing, waitFor>>
               ELSE RemoveBegin(n, "create")

\* SessionRegistry.resume on a resumable name, its answer left out
Resume(n, ok) ==
    /\ UNCHANGED <<sessVars, histVars, cmdVars, wtVars, mgrVars, fileVars, childVars, sizeVars, thrVars>>
    /\ reply' = Nil
    /\ ResumeRun(n, ok)

\* SessionRegistry.resume on a resumable name, with what resume_session
\* answers
ResumeCall(n, ok) ==
    /\ UNCHANGED <<sessVars, histVars, cmdVars, wtVars, mgrVars, fileVars, childVars, sizeVars, thrVars>>
    /\ reply' = <<"resume", n, ResumeOutcome(n, ok)>>
    /\ ResumeRun(n, ok)

\* SessionRegistry.dismiss_resumable, reached from the routes for a name
\* that is not live
DismissResumable(n) ==
    /\ UNCHANGED <<sessVars, histVars, cmdVars, wtVars, mgrVars, fileVars, childVars, sizeVars, thrVars>>
    /\ reply' = Nil
    /\ sessions[n] = 0
    /\ resumable[n] # Nil
    /\ resumable' = PopResumable(resumable, n)
    /\ disk' = DeleteMetadata(disk, n)
    /\ UNCHANGED <<sessions, sobj, removing, waitFor>>

\* SessionRegistry.graceful_stop -> Session.interrupt
GracefulStop(n) ==
    /\ UNCHANGED <<sessVars, histVars, cmdVars, wtVars, mgrVars, fileVars, childVars, sizeVars, thrVars>>
    /\ reply' = Nil
    /\ sessions[n] # 0
    /\ sobj[sessions[n]].status = "running"
    /\ sobj' = [sobj EXCEPT ![sessions[n]].status = "stopping"]
    /\ UNCHANGED <<sessions, resumable, disk, removing, waitFor>>

\* Session._escalate_kill: the stop timeout fired on a session still stopping
EscalateKill(s) ==
    /\ UNCHANGED <<sessVars, histVars, cmdVars, wtVars, mgrVars, fileVars, childVars, sizeVars, thrVars>>
    /\ reply' = Nil
    /\ sobj[s].status = "stopping"
    /\ sobj[s].mon = "alive"
    /\ ~sobj[s].esc
    /\ sobj' = [sobj EXCEPT ![s].esc = TRUE]
    /\ UNCHANGED <<sessions, resumable, disk, removing, waitFor>>

\* Session._monitor_process from the exit it observed to its end, with
\* SessionRegistry._on_session_exit: one step of the loop. The callback is
\* keyed by name: it pops whatever session the live map holds under it.
SessionExit(s, hasTok) ==
    LET n == sobj[s].name
        p == sessions[n]
        after == [sobj EXCEPT ![s].status = "exited",
                              ![s].rid = IF hasTok THEN <<s>> ELSE Nil,
                              ![s].mon = "done"]
    IN /\ UNCHANGED <<sessVars, histVars, cmdVars, wtVars, mgrVars, fileVars, childVars, sizeVars, thrVars>>
       /\ reply' = Nil
       /\ sobj[s].mon = "alive"
       /\ waitFor[s] = {}
       /\ sobj' = after
       /\ IF p = 0
          THEN UNCHANGED <<sessions, resumable, disk>>
          ELSE /\ sessions' = [sessions EXCEPT ![n] = 0]
               /\ IF after[p].rid # Nil
                  THEN /\ resumable' = [resumable EXCEPT ![n] = ToDict(after[p])]
                       /\ disk' = SaveMetadataDict(disk, n, ToDict(after[p]))
                  ELSE /\ disk' = DeleteMetadata(disk, n)
                       /\ UNCHANGED resumable
       /\ UNCHANGED <<removing, waitFor>>

\* The daemon dies and is started again: SessionRegistry.__init__
Restart ==
    /\ UNCHANGED <<sessVars, histVars, cmdVars, wtVars, mgrVars, fileVars, childVars, sizeVars, thrVars>>
    /\ reply' = Nil
    /\ sessions' = [n \in Names |-> 0]
    /\ sobj' = [s \in Sids |-> NoSession]
    /\ removing' = {}
    /\ waitFor' = [s \in Sids |-> {}]
    /\ resumable' = LoadResumable(disk)
    /\ UNCHANGED disk

\* ------------------------------------------------------ resume commands
\* A command is the sequence of its whitespace-separated words.

\* The flag and the fixed resume command of the policy records (config.py)
RESUME_FLAG == "--resume"
RESUME_COMMAND == <<"codex", "resume">>

\* Words of a command that are neither its executable nor the flag.
OtherWords == {"-p"}
\* Resume tokens an agent prints.
Tokens == {"T1", "T2"}

RECURSIVE SeqsUpTo(_, _)
SeqsUpTo(S, n) ==
    IF n = 0 THEN {<<>>}
    ELSE LET shorter == SeqsUpTo(S, n - 1)
         IN shorter \cup {Append(q, w) : q \in shorter, w \in S}

\* SessionRegistry._agent_config_for: the resume_flag of the matching entry
\* (None for an entry that has a resume_command instead)
PolicyFlag(kind) == IF kind = "token" THEN RESUME_FLAG ELSE ""

\* Session.to_dict: command, resume_id and resume_flag are in the
\* projection; it has no resume_command key
ToDictMeta(cmd, rid, flag) ==
    [command |-> cmd, resume_id |-> rid, resume_flag |-> flag,
     resume_command |-> <<>>]

\* re.sub(r'\s*<flag>\s+\S+', '', command): every flag word is removed
\* together with the word after it, whatever that word is; a flag that is
\* the last word stays
RECURSIVE StripFlag(_, _)
StripFlag(cmd, flag) ==
    IF cmd = <<>> THEN <<>>
    ELSE IF Head(cmd) = flag /\ Len(cmd) >= 2
         THEN StripFlag(Tail(Tail(cmd)), flag)
         ELSE <<Head(cmd)>> \o StripFlag(Tail(cmd), flag)

\* SessionRegistry.resume: the command of the new session
ResumeCommand(meta) ==
    IF meta.resume_command # <<>>
    THEN meta.resume_command
    ELSE LET flag == IF meta.resume_flag # "" THEN meta.resume_flag
                     ELSE "--resume"
         IN StripFlag(meta.command, flag) \o <<flag, meta.resume_id>>

\* The session exits with the token t captured; resume(name) starts the
\* next session with the command computed from the exited projection.
ExitAndResume(t) ==
    /\ UNCHANGED <<sessVars, histVars, regVars, wtVars, mgrVars, fileVars, childVars, sizeVars, thrVars>>
    /\ cycles < MaxCycles
    /\ cycles' = cycles + 1
    /\ lastToken' = t
    /\ command' = ResumeCommand(ToDictMeta(command, t, PolicyFlag(policy)))
    /\ UNCHANGED <<policy, original>>

\* ------------------------------------------------------------- worktrees
\* One repository with the worktree of one session. A commit is a tuple:
\* Base is the commit the session branch was created at (base_commit), T1 a
\* later commit on the target branch, <<"work", n>> the tip of the session
\* branch after n commits on Base, and the results of the three strategies.

NoRef == <<>>
Base == <<"base">>
T1 == <<"t1">>
Work(n) == <<"work", n>>

Strategies == {"squash", "merge", "rebase", "octopus"}

\* The git commands of merge whose failure ends the call, in program order;
\* "none" is a run in which all of them succeed.
FailPoints ==
    {"none", "add", "merge", "commit", "rebase", "checkout", "ff",
     "revparse", "updateref"}

\* The session's own commits that a commit carries.
Content(c) ==
    IF c = NoRef \/ c = Base \/ c = T1 THEN <<"work", 0>>
    ELSE IF c[1] = "work" THEN c
    ELSE c[3]

\* WorktreeManager._count_commits_ahead: rev-list --count base_commit..branch,
\* 0 when git fails (no such branch)
CountCommitsAhead(w) ==
    IF w.branch = NoRef THEN 0 ELSE Content(w.branch)[2]

\* git merge --squash <branch> and git commit, on a checkout of target
SquashCommit(target, branch) == <<"squash", target, Content(branch)>>

\* git merge --no-ff <branch>, on a checkout of target
MergeCommit(target, branch) == <<"merge", target, Content(branch)>>

\* git rebase <target> <branch>: the branch's commits replayed on target;
\* a branch that already sits on target is left as it is
RebasedTip(target, branch) ==
    IF target = Base /\ branch = Content(branch) THEN branch
    ELSE IF branch[1] = "rebased" /\ branch[2] = target THEN branch
    ELSE <<"rebased", target, Content(branch)>>

\* WorktreeManager.create: record written, directory and branch created at
\* the base commit, for a session that is live
NewWorktree ==
    [rec |-> TRUE, dir |-> TRUE, branch |-> Base, target |-> Base,
     tmpDir |-> FALSE, tmpBranch |-> FALSE, active |-> TRUE]

\* MergeResult, reduced to success and the return statement that built it
Result(ok, why, strategy) ==
    [success |-> ok, message |-> why, strategy |-> strategy]

\* git worktree add -b <tmp_branch> <tmp_wt_dir> <target>
AddTmpWorktree(w) == [w EXCEPT !.tmpDir = TRUE, !.tmpBranch = TRUE]

\* The same command on a path that exists already (left by an earlier
\* merge): git creates the branch, then rejects the path
AddTmpWorktreeRejected(w) == [w EXCEPT !.tmpBranch = TRUE]

\* The finally block of merge: git worktree remove --force and git branch
\* -D on the temporary worktree, both with their exit status ignored
CleanupTmp(w, rmOk, delOk) ==
    [w EXCEPT !.tmpDir = IF rmOk THEN FALSE ELSE @,
              !.tmpBranch = IF delOk THEN FALSE ELSE @]

\* WorktreeManager.remove(info, force=True): remove the directory if it
\* exists (a failure is logged), delete the branch with -d then -D (exit
\* status ignored), drop the record
RemoveForce(w, rmOk, delOk) ==
    [w EXCEPT !.dir = IF rmOk THEN FALSE ELSE @,
              !.branch = IF delOk THEN NoRef ELSE @,
              !.rec = FALSE]

\* A merge that does not look at the active-session set.
IsActiveIgnored(w) == FALSE

\* info.session_id in self._active_sessions
IsActive(w) == w.active

\* The strategy block of merge (the inner try up to the ref update) on the
\* repository w where the temporary worktree exists: the repository it
\* leaves, the commit at HEAD of the temporary worktree, and how it ended
\* ("ok", a return statement, or "raise" for a CalledProcessError).
StrategyBlock(w, strategy, fail) ==
    CASE strategy = "squash" ->
            IF fail = "merge" THEN [w |-> w, head |-> NoRef, end |-> "conflict"]
            ELSE IF fail = "commit" THEN [w |-> w, head |-> NoRef, end |-> "raise"]
            ELSE [w |-> w, head |-> SquashCommit(w.target, w.branch), end |-> "ok"]
      [] strategy = "merge" ->
            IF fail = "merge" THEN [w |-> w, head |-> NoRef, end |-> "conflict"]
            ELSE [w |-> w, head |-> MergeCommit(w.target, w.branch), end |-> "ok"]
      [] strategy = "rebase" ->
            \* git refuses to rebase a branch that is checked out in another
            \* worktree, here the session's
            IF fail = "rebase" \/ w.dir
            THEN [w |-> w, head |-> NoRef, end |-> "rebase-conflict"]
            ELSE LET tip == RebasedTip(w.target, w.branch)
                     rebased == [w EXCEPT !.branch = tip]
                 IN IF fail \in {"checkout", "ff"}
                    THEN [w |-> rebased, head |-> NoRef, end |-> "raise"]
                    ELSE [w |-> [rebased EXCEPT !.target = tip],
                          head |-> tip, end |-> "ok"]
      [] OTHER -> [w |-> w, head |-> NoRef, end |-> "unknown"]

\* The inner try of merge after the strategy block: rev-parse HEAD in the
\* temporary worktree and update-ref of the target branch. (The stash and
\* reset of the main checkout touch its working tree only.)
UpdateTarget(b, fail) ==
    IF b.end # "ok" THEN b
    ELSE IF fail \in {"revparse", "updateref"} THEN [b EXCEPT !.end = "raise"]
    ELSE [b EXCEPT !.w.target = b.head]

\* WorktreeManager.merge as a function of the repository and of what git
\* does: the repository afterwards and the MergeResult.
MergeRun(w, strategy, fail, rmTmp, delTmp, rmWt, delBr) ==
    IF IsActive(w)
    THEN [w |-> w, res |-> Result(FALSE, "active", strategy)]
    ELSE IF CountCommitsAhead(w) = 0
    THEN [w |-> w, res |-> Result(FALSE, "nothing", strategy)]
    ELSE IF w.tmpDir
    THEN [w |-> AddTmpWorktreeRejected(w), res |-> Result(FALSE, "git", strategy)]
    ELSE IF fail = "add"
    THEN [w |-> w, res |-> Result(FALSE, "git", strategy)]
    ELSE LET b == UpdateTarget(StrategyBlock(AddTmpWorktree(w), strategy, fail),
                               fail)
             cleaned == CleanupTmp(b.w, rmTmp, delTmp)
         IN IF b.end = "ok"
            THEN [w |-> RemoveForce(cleaned, rmWt, delBr),
                  res |-> Result(TRUE, "merged", strategy)]
            ELSE [w |-> cleaned,
                  res |-> Result(FALSE, IF b.end = "raise" THEN "git" ELSE b.end,
                                 strategy)]

\* POST /worktrees/{name}/merge: the record is looked up in the state store
\* (404 without one), then merge runs.
Merge(strategy, fail, rmTmp, delTmp, rmWt, delBr) ==
    /\ UNCHANGED <<sessVars, histVars, regVars, cmdVars, mgrVars, fileVars, childVars, sizeVars, thrVars>>
    /\ wt.rec
    /\ nMerges < MaxMerges
    /\ nMerges' = nMerges + 1
    /\ LET r == MergeRun(wt, strategy, fail, rmTmp, delTmp, rmWt, delBr)
       IN /\ wt' = r.w
          /\ mres' = r.res

\* The agent commits in its worktree.
AgentCommit ==
    /\ UNCHANGED <<sessVars, histVars, regVars, cmdVars, mgrVars, fileVars, childVars, sizeVars, thrVars>>
    /\ wt.rec /\ wt.dir /\ wt.active
    /\ wt.branch \in {Base} \cup {Work(n) : n \in 1..(MaxAhead - 1)}
    /\ wt' = [wt EXCEPT !.branch = Work(Content(@)[2] + 1)]
    /\ UNCHANGED <<mres, nMerges>>

\* Somebody commits on the target branch.
TargetAdvance ==
    /\ UNCHANGED <<sessVars, histVars, regVars, cmdVars, mgrVars, fileVars, childVars, sizeVars, thrVars>>
    /\ wt.target = Base
    /\ wt' = [wt EXCEPT !.target = T1]
    /\ UNCHANGED <<mres, nMerges>>

\* The worktree directory is removed behind the manager's back (git worktree
\* remove by hand); the record and the branch stay.
WorktreeDirRemoved ==
    /\ UNCHANGED <<sessVars, histVars, regVars, cmdVars, mgrVars, fileVars, childVars, sizeVars, thrVars>>
    /\ wt.rec /\ wt.dir
    /\ wt' = [wt EXCEPT !.dir = FALSE]
    /\ UNCHANGED <<mres, nMerges>>

\* The session ends and leaves the active-session set.
SessionEnds ==
    /\ UNCHANGED <<sessVars, histVars, regVars, cmdVars, mgrVars, fileVars, childVars, sizeVars, thrVars>>
    /\ wt.active
    /\ wt' = [wt EXCEPT !.active = FALSE]
    /\ UNCHANGED <<mres, nMerges>>

\* --------------------------------------------------- the worktree manager
\* The state store (~/.conductor/worktrees.json) and one repository with the
\* worktrees of the sessions in Names; a session's id is its name.

\* _BRANCH_PREFIX and _WORKTREE_DIR_NAME
BRANCH_PREFIX == "conductor/"
WORKTREE_DIR_NAME == ".conductor-worktrees"

\* range(2, 100) of the collision loops in create, scaled
SUFFIX_END == 3

\* The candidates of the collision loops: no suffix (1), then -2, -3, ...
Suffixes == 1..(SUFFIX_END - 1)

\* A branch name without the prefix.
BranchNameBare(n, i) == <<"", n, i>>

\* f"{_BRANCH_PREFIX}{safe_name}" and f"{branch}-{i}"
BranchName(n, i) == <<BRANCH_PREFIX, n, i>>

\* worktree_dir / safe_name and worktree_dir / f"{safe_name}-{i}"
WorktreePath(n, i) == <<WORKTREE_DIR_NAME, n, i>>

\* WorktreeInfo, without commits_ahead and has_changes
Info(n, b, p, bc, st, la) ==
    [name |-> n, branch |-> b, worktree_path |-> p, base_commit |-> bc,
     session_id |-> n, status |-> st, last_activity |-> la]

\* A repository without worktrees and an empty state store. dirs are the
\* worktree directories on disk, reg the paths git has registered as
\* worktrees, unmerged the branches with commits that HEAD does not have.
EmptyRepo ==
    [repo |-> TRUE, store |-> [n \in Names |-> Nil], dirs |-> {}, reg |-> {},
     branches |-> {}, unmerged |-> {}]

\* The first candidate of a collision loop that is not taken, 0 for none
\* (the for/else that raises ValueError)
FirstFree(taken) ==
    IF \E i \in Suffixes : ~taken[i]
    THEN CHOOSE i \in Suffixes : ~taken[i] /\ \A j \in Suffixes : j < i => taken[j]
    ELSE 0

\* WorktreeManager.create: the manager state afterwards and the info it
\* returns, Nil when it raises. gitOk = FALSE is a `git worktree add` that
\* fails for a reason of its own.
CreateRun(m, n, hd, t, gitOk) ==
    LET bi == FirstFree([i \in Suffixes |-> BranchName(n, i) \in m.branches])
        pj == FirstFree([i \in Suffixes |-> WorktreePath(n, i) \in m.dirs])
        b == BranchName(n, bi)
        p == WorktreePath(n, pj)
        info == Info(n, b, p, hd, "active", t)
    IN IF ~m.repo \/ bi = 0 \/ pj = 0 \/ ~gitOk
       THEN [m |-> m, info |-> Nil]
       ELSE IF p \in m.reg
       \* a path that is missing but still registered: git creates the
       \* branch, then rejects the path
       THEN [m |-> [m EXCEPT !.branches = @ \cup {b}], info |-> Nil]
       ELSE [m |-> [m EXCEPT !.branches = @ \cup {b},
                             !.dirs = @ \cup {p},
                             !.reg = @ \cup {p},
                             !.store[n] = info],
             info |-> info]

\* wt_state.update_worktree(info.repo_path, info.name, info.to_dict())
UpdateWorktree(m, info) == [m EXCEPT !.store[info.name] = info]

\* WorktreeManager.finalize: the info as it leaves it (it is also what it
\* writes to the store)
FinalizeInfo(m, info, t) ==
    IF info.worktree_path \notin m.dirs
    THEN [info EXCEPT !.status = "orphaned"]
    ELSE [info EXCEPT !.status = "finalized", !.last_activity = t]

\* WorktreeManager.get_status
GetStatusInfo(m, info) ==
    IF info.worktree_path \notin m.dirs
    THEN [info EXCEPT !.status = "orphaned"]
    ELSE info

\* WorktreeManager.update_activity
UpdateActivityInfo(info, t) == [info EXCEPT !.last_activity = t]

\* WorktreeManager.remove, its first statement
Refuses(info, force, lv) == info.session_id \in lv /\ ~force

\* WorktreeManager.remove: the manager state afterwards and whether it
\* raised. rm is what became of the directory: "git" (git worktree remove
\* removed it), "manual" (git refused, shutil.rmtree deleted it and git
\* keeps the path registered) or "fail" (it is still there).
RemoveRun(m, info, force, lv, rm) ==
    IF Refuses(info, force, lv) THEN [m |-> m, raised |-> TRUE]
    ELSE LET p == info.worktree_path
             m1 == IF p \notin m.dirs \/ rm = "fail" THEN m
                   ELSE [m EXCEPT !.dirs = @ \ {p},
                                  !.reg = IF rm = "git" THEN @ \ {p} ELSE @]
             \* git branch -d, then -D under force; git deletes no branch
             \* that a registered worktree has checked out
             gone == /\ p \notin m1.reg
                     /\ (info.branch \notin m1.unmerged \/ force)
             m2 == IF gone THEN [m1 EXCEPT !.branches = @ \ {info.branch},
                                           !.unmerged = @ \ {info.branch}]
                   ELSE m1
         IN \* without the repository directory the first _git call that
            \* is reached raises FileNotFoundError (its cwd is missing)
            IF ~m.repo THEN [m |-> m, raised |-> TRUE]
            ELSE [m |-> [m2 EXCEPT !.store[info.name] = Nil], raised |-> FALSE]

\* WorktreeManager.reconcile, one record of its loop (wsOk: the state store
\* can be written)
ReconcileOne(m, n, lv, t) ==
    LET d == m.store[n]
    IN IF d = Nil THEN m
       ELSE IF d.worktree_path \notin m.dirs
       THEN UpdateWorktree(m, [d EXCEPT !.status = "orphaned"])
       ELSE IF d.status = "active" /\ d.session_id \notin lv
       THEN UpdateWorktree(m, FinalizeInfo(m, d, t))
       ELSE m

RECURSIVE ReconcileLoop(_, _, _, _)
ReconcileLoop(m, names, lv, t) ==
    IF names = {} THEN m
    ELSE LET n == CHOOSE x \in names : TRUE
         IN ReconcileLoop(ReconcileOne(m, n, lv, t), names \ {n}, lv, t)

\* WorktreeManager.reconcile: the state afterwards and whether it raised.
\* A write that fails raises out of the branch that marks orphans and is
\* caught around finalize.
ReconcileRun(m, lv, t, wsOk) ==
    IF wsOk THEN [m |-> ReconcileLoop(m, Names, lv, t), raised |-> FALSE]
    ELSE [m |-> m,
          raised |-> \E n \in Names :
                        m.store[n] # Nil /\ m.store[n].worktree_path \notin m.dirs]

\* A gc that does not look at the live set.
GcSkipsNone(d, lv) == FALSE

\* WorktreeManager.gc: "if session_id in self._active_sessions: continue"
GcSkips(d, lv) == d.session_id \in lv

\* WorktreeManager.gc: whether a record of the snapshot gets a reason
GcReason(d, lv, t, maxAge) ==
    /\ ~GcSkips(d, lv)
    /\ \/ d.status = "orphaned"
       \/ d.status \in {"finalized", "stale"} /\ d.last_activity < t - maxAge

\* The names gc gives a reason to, from the snapshot it loads first.
GcSelected(m, lv, t, maxAge) ==
    {n \in Names : m.store[n] # Nil /\ GcReason(m.store[n], lv, t, maxAge)}

RECURSIVE GcLoop(_, _, _, _, _)
GcLoop(m, snap, names, lv, rm) ==
    IF names = {} THEN [m |-> m, actions |-> {}]
    ELSE LET n == CHOOSE x \in names : TRUE
             r == RemoveRun(m, snap[n], TRUE, lv, rm)
             rest == GcLoop(r.m, snap, names \ {n}, lv, rm)
         IN [m |-> rest.m,
             actions |-> rest.actions \cup
                 {<<n, IF r.raised THEN "failed" ELSE "removed">>}]

\* WorktreeManager.gc: the state afterwards and the actions it reports
GcRun(m, lv, t, maxAge, dry, rm) ==
    LET sel == GcSelected(m, lv, t, maxAge)
    IN IF dry THEN [m |-> m, actions |-> {<<n, "would remove">> : n \in sel}]
       ELSE GcLoop(m, m.store, sel, lv, rm)

\* ---- the operations, as their callers reach them

\* The session names that are given a worktree.
WtNames == {"a"}

RemoveOutcomes == {"git", "manual", "fail"}

\* The info object a caller passes: the one it holds since create, or a
\* fresh one read from the store (list_worktrees)
InfoFrom(n, src) == IF src = "held" THEN held[n] ELSE mgr.store[n]

\* WorktreeManager.create for a session that starts
WtCreate(n, gitOk) ==
    /\ UNCHANGED <<sessVars, histVars, regVars, cmdVars, wtVars, fileVars, childVars, sizeVars, thrVars>>
    /\ LET r == CreateRun(mgr, n, head, now, gitOk)
       IN /\ mgr' = r.m
          /\ held' = IF r.info = Nil THEN held ELSE [held EXCEPT ![n] = r.info]
          /\ live' = IF r.info = Nil THEN live ELSE live \cup {n}
          /\ mgrOut' = [op |-> "create", name |-> n, raised |-> r.info = Nil]
    /\ UNCHANGED <<head, now>>

\* WorktreeManager.finalize
Finalize(n, src) ==
    /\ UNCHANGED <<sessVars, histVars, regVars, cmdVars, wtVars, fileVars, childVars, sizeVars, thrVars>>
    /\ InfoFrom(n, src) # Nil
    /\ LET info == FinalizeInfo(mgr, InfoFrom(n, src), now)
       IN /\ mgr' = UpdateWorktree(mgr, info)
          /\ held' = IF src = "held" THEN [held EXCEPT ![n] = info] ELSE held
    /\ mgrOut' = [op |-> "finalize", name |-> n, raised |-> FALSE]
    /\ UNCHANGED <<live, head, now>>

\* WorktreeManager.get_status
GetStatus(n, src) ==
    /\ UNCHANGED <<sessVars, histVars, regVars, cmdVars, wtVars, fileVars, childVars, sizeVars, thrVars>>
    /\ InfoFrom(n, src) # Nil
    /\ LET info == GetStatusInfo(mgr, InfoFrom(n, src))
       IN /\ mgr' = UpdateWorktree(mgr, info)
          /\ held' = IF src = "held" THEN [held EXCEPT ![n] = info] ELSE held
    /\ mgrOut' = [op |-> "get_status", name |-> n, raised |-> FALSE]
    /\ UNCHANGED <<live, head, now>>

\* WorktreeManager.update_activity, called by the session on PTY output with
\* the info it holds
UpdateActivity(n) ==
    /\ UNCHANGED <<sessVars, histVars, regVars, cmdVars, wtVars, fileVars, childVars, sizeVars, thrVars>>
    /\ held[n] # Nil
    /\ n \in live
    /\ LET info == UpdateActivityInfo(held[n], now)
       IN /\ mgr' = UpdateWorktree(mgr, info)
          /\ held' = [held EXCEPT ![n] = info]
    /\ mgrOut' = [op |-> "update_activity", name |-> n, raised |-> FALSE]
    /\ UNCHANGED <<live, head, now>>

\* WorktreeManager.remove, from DELETE /worktrees/{name} (the info is read
\* from the store)
WtRemove(n, force, rm) ==
    /\ UNCHANGED <<sessVars, histVars, regVars, cmdVars, wtVars, fileVars, childVars, sizeVars, thrVars>>
    /\ mgr.store[n] # Nil
    /\ LET r == RemoveRun(mgr, mgr.store[n], force, live, rm)
       IN /\ mgr' = r.m
          /\ mgrOut' = [op |-> "remove", name |-> n, raised |-> r.raised,
                        force |-> force, rm |-> rm]
    /\ UNCHANGED <<held, live, head, now>>

\* WorktreeManager.merge as far as the store goes: a merge that succeeds
\* ends with remove(info, force=True), one that fails leaves the store alone
MergeOutcome(n, ok, rm) ==
    /\ UNCHANGED <<sessVars, histVars, regVars, cmdVars, wtVars, fileVars, childVars, sizeVars, thrVars>>
    /\ mgr.store[n] # Nil
    /\ n \notin live
    /\ mgr.repo
    /\ mgr' = IF ok THEN RemoveRun(mgr, mgr.store[n], TRUE, live, rm).m ELSE mgr
    /\ mgrOut' = [op |-> "merge", name |-> n, raised |-> FALSE]
    /\ UNCHANGED <<held, live, head, now>>

\* WorktreeManager.reconcile
Reconcile(wsOk) ==
    /\ UNCHANGED <<sessVars, histVars, regVars, cmdVars, wtVars, fileVars, childVars, sizeVars, thrVars>>
    /\ LET r == ReconcileRun(mgr, live, now, wsOk)
       IN /\ mgr' = r.m
          /\ mgrOut' = [op |-> "reconcile", name |-> Nil, raised |-> r.raised]
    /\ UNCHANGED <<held, live, head, now>>

\* WorktreeManager.gc
Gc(maxAge, dry, rm) ==
    /\ UNCHANGED <<sessVars, histVars, regVars, cmdVars, wtVars, fileVars, childVars, sizeVars, thrVars>>
    /\ LET r == GcRun(mgr, live, now, maxAge, dry, rm)
       IN /\ mgr' = r.m
          /\ mgrOut' = [op |-> "gc", name |-> Nil, raised |-> FALSE,
                        dry |-> dry, maxAge |-> maxAge, actions |-> r.actions]
    /\ UNCHANGED <<held, live, head, now>>

\* ---- what happens around the manager

\* The session of a worktree ends (set_active_sessions without it).
SessionGone(n) ==
    /\ UNCHANGED <<sessVars, histVars, regVars, cmdVars, wtVars, fileVars, childVars, sizeVars, thrVars>>
    /\ n \in live
    /\ live' = live \ {n}
    /\ mgrOut' = Nil
    /\ UNCHANGED <<mgr, held, head, now>>

\* The agent commits on its branch.
AgentWork(n) ==
    /\ UNCHANGED <<sessVars, histVars, regVars, cmdVars, wtVars, fileVars, childVars, sizeVars, thrVars>>
    /\ n \in live
    /\ held[n] # Nil
    /\ held[n].worktree_path \in mgr.dirs
    /\ mgr' = [mgr EXCEPT !.unmerged = @ \cup {held[n].branch}]
    /\ mgrOut' = Nil
    /\ UNCHANGED <<held, live, head, now>>

\* Somebody commits in the main checkout.
HeadAdvance ==
    /\ UNCHANGED <<sessVars, histVars, regVars, cmdVars, wtVars, fileVars, childVars, sizeVars, thrVars>>
    /\ mgr.repo
    /\ head < MaxHead
    /\ head' = head + 1
    /\ mgrOut' = Nil
    /\ UNCHANGED <<mgr, held, live, now>>

\* A day passes.
Tick ==
    /\ UNCHANGED <<sessVars, histVars, regVars, cmdVars, wtVars, fileVars, childVars, sizeVars, thrVars>>
    /\ now < MaxTime
    /\ now' = now + 1
    /\ mgrOut' = Nil
    /\ UNCHANGED <<mgr, held, live, head>>

\* A worktree directory is deleted by hand; git keeps it registered.
DirVanishes(p) ==
    /\ UNCHANGED <<sessVars, histVars, regVars, cmdVars, wtVars, fileVars, childVars, sizeVars, thrVars>>
    /\ p \in mgr.dirs
    /\ mgr' = [mgr EXCEPT !.dirs = @ \ {p}]
    /\ mgrOut' = Nil
    /\ UNCHANGED <<held, live, head, now>>

\* The repository directory is deleted or moved, its worktrees with it.
RepoVanishes ==
    /\ UNCHANGED <<sessVars, histVars, regVars, cmdVars, wtVars, fileVars, childVars, sizeVars, thrVars>>
    /\ mgr.repo
    /\ mgr' = [mgr EXCEPT !.repo = FALSE, !.dirs = {}, !.reg = {},
                          !.branches = {}, !.unmerged = {}]
    /\ mgrOut' = Nil
    /\ UNCHANGED <<held, live, head, now>>

\* ------------------------------------------------------- the state file
\* wt_state.load and wt_state.save on WORKTREES_FILE. save runs in the
\* thread of its caller (the event loop or an executor thread), load in any
\* other, so a load can fall between any two steps of a save.

Missing == <<"missing">>

\* A complete JSON document (an object), the v-th handed to save
Doc(v) == <<"doc", v>>

\* The first bytes of a document whose json.dump has not finished
Partial(v) == <<"partial", v>>

\* Content that is not a document: bytes that are UTF-8 but not JSON, bytes
\* that are not UTF-8, and JSON that is not an object.
Malformed == {<<"not json">>, <<"not utf-8">>, <<"not an object">>}

\* The empty state, {}
EmptyState == <<"doc", "{}">>

\* wt_state.load on a file with content f: what it returns, or that it
\* raises. read_text raises UnicodeDecodeError, which is neither a
\* JSONDecodeError nor an OSError; json.loads returns any JSON value.
LoadResult(f) ==
    IF f = Missing THEN [raised |-> FALSE, value |-> EmptyState]
    ELSE IF f[1] \in {"not json", "partial"}
    THEN [raised |-> FALSE, value |-> EmptyState]
    ELSE IF f[1] = "not utf-8" THEN [raised |-> TRUE, value |-> Nil]
    ELSE [raised |-> FALSE, value |-> f]

\* wt_state.load
Load ==
    /\ UNCHANGED <<sessVars, histVars, regVars, cmdVars, wtVars, mgrVars,
                 childVars, sizeVars, thrVars>>
    /\ rd' = [src |-> wfile] @@ LoadResult(wfile)
    /\ UNCHANGED <<wfile, tmpfile, leftover, savePc, saveData, saveOut,
                   saveOld, nSaves>>

\* save, to tempfile.mkstemp: the temp file exists and is empty; with
\* ok = FALSE mkstemp raises and there is no temp file
SaveMkstemp(ok) ==
    /\ UNCHANGED <<sessVars, histVars, regVars, cmdVars, wtVars, mgrVars,
                 childVars, sizeVars, thrVars>>
    /\ savePc = "idle"
    /\ nSaves < MaxSaves
    /\ nSaves' = nSaves + 1
    /\ saveData' = Doc(nSaves + 1)
    /\ saveOld' = wfile
    /\ IF ok
       THEN /\ tmpfile' = Partial(nSaves + 1)
            /\ savePc' = "opened"
            /\ saveOut' = Nil
       ELSE /\ tmpfile' = Missing
            /\ savePc' = "idle"
            /\ saveOut' = "raised"
    /\ UNCHANGED <<wfile, leftover, rd>>

\* save, json.dump and the close of the temp file; with ok = FALSE the
\* write raises, the handler unlinks the temp file and re-raises
SaveDump(ok) ==
    /\ UNCHANGED <<sessVars, histVars, regVars, cmdVars, wtVars, mgrVars,
                 childVars, sizeVars, thrVars>>
    /\ savePc = "opened"
    /\ IF ok
       THEN /\ tmpfile' = saveData
            /\ savePc' = "dumped"
            /\ saveOut' = Nil
       ELSE /\ tmpfile' = Missing
            /\ savePc' = "idle"
            /\ saveOut' = "raised"
    /\ UNCHANGED <<wfile, leftover, saveData, saveOld, nSaves, rd>>

\* save, Path(tmp).replace(WORKTREES_FILE): one rename; with ok = FALSE it
\* raises, the handler unlinks the temp file and re-raises
SaveReplace(ok) ==
    /\ UNCHANGED <<sessVars, histVars, regVars, cmdVars, wtVars, mgrVars,
                 childVars, sizeVars, thrVars>>
    /\ savePc = "dumped"
    /\ IF ok
       THEN /\ wfile' = tmpfile
            /\ saveOut' = "ok"
       ELSE /\ wfile' = wfile
            /\ saveOut' = "raised"
    /\ tmpfile' = Missing
    /\ savePc' = "idle"
    /\ UNCHANGED <<leftover, saveData, saveOld, nSaves, rd>>

\* The process dies inside save: nothing unlinks the temp file.
Crash ==
    /\ UNCHANGED <<sessVars, histVars, regVars, cmdVars, wtVars, mgrVars,
                 childVars, sizeVars, thrVars>>
    /\ savePc # "idle"
    /\ leftover' = leftover \cup {tmpfile}
    /\ tmpfile' = Missing
    /\ savePc' = "idle"
    /\ saveOut' = "crashed"
    /\ UNCHANGED <<wfile, saveData, saveOld, nSaves, rd>>

\* ----------------------------------------------------------- specification

\* The state after Session.start(): running, reader registered, monitor
\* polling, no subscriber.
SessionStarted ==
    /\ drv \in {"unix", "win"}
    /\ status = "running"
    /\ resume_id = Nil
    /\ buffer = <<>>
    /\ subscribers = {}
    /\ queue = [c \in Clients |-> <<>>]
    /\ BUFFER_MAX_BYTES = BUFFER_MAX_DEFAULT
    /\ procAlive = TRUE
    /\ ptyOut = <<>>
    /\ nWritten = 0
    /\ tok = {}
    /\ readerOn = (drv = "unix")
    /\ ptyClosed = FALSE
    /\ posted = <<>>
    /\ owed = 0
    /\ monPc = "poll"
    /\ killPc = "none"
    /\ escPc = "none"
    /\ escKills = 0
    /\ cpc = [c \in Clients |-> "idle"]
    /\ snapEnd = [c \in Clients |-> 0]
    /\ lastLive = [c \in Clients |-> 0]
    /\ readAt = [c \in Clients |-> 0]
    /\ subAt = [c \in Clients |-> 0]
    /\ closedFor = {}

\* A registry that holds nothing.
RegistryEmpty ==
    /\ sessions = [n \in Names |-> 0]
    /\ resumable = [n \in Names |-> Nil]
    /\ disk = [n \in Names |-> Nil]
    /\ sobj = [s \in Sids |-> NoSession]
    /\ removing = {}
    /\ waitFor = [s \in Sids |-> {}]
    /\ reply = Nil

\* No command under study.
NoCommand ==
    /\ policy = "token"
    /\ original = <<>>
    /\ command = <<>>
    /\ lastToken = ""
    /\ cycles = 0

\* No worktree under study.
NoWorktree ==
    /\ wt = [NewWorktree EXCEPT !.rec = FALSE, !.dir = FALSE,
                                !.branch = NoRef, !.active = FALSE]
    /\ mres = Nil
    /\ nMerges = 0

\* ------------------------------------------- manager calls on worker threads
\* merge, remove and gc run on the threads of the default executor
\* (run_in_executor), and nothing serialises their writes of the state
\* store. Every write is update_worktree or remove_worktree: load() the
\* whole document, change one record, save() the whole document. A thread
\* can be preempted between the two.

Threads == {"t1", "t2"}

\* The two threads work for different sessions.
SessionOf(t) == IF t = "t1" THEN "a" ELSE "b"

ThreadOps == {"create", "finalize", "remove"}

IdleThread == [pc |-> "idle", op |-> "", info |-> Nil, data |-> Nil]

\* The manager call of the thread up to the load() of its state-store write:
\* what it did to the repository, and the record it is about to write.
ThreadRun(m, op, n, hd, t) ==
    IF op = "create"
    THEN LET r == CreateRun(m, n, hd, t, TRUE)
         IN [m |-> [r.m EXCEPT !.store = m.store], info |-> r.info]
    ELSE IF op = "finalize"
    THEN [m |-> m, info |-> FinalizeInfo(m, m.store[n], t)]
    ELSE [m |-> [RemoveRun(m, m.store[n], TRUE, {}, "git").m
                    EXCEPT !.store = m.store],
          info |-> m.store[n]]

\* update_worktree and remove_worktree between load() and save(): the
\* document that was loaded with the one record changed
Modified(data, op, info) ==
    IF op = "remove" THEN [data EXCEPT ![info.name] = Nil]
    ELSE [data EXCEPT ![info.name] = info]

\* A thread runs a manager call for its session as far as "data = load()"
\* of update_worktree or remove_worktree.
ThreadLoad(t, op) ==
    LET n == SessionOf(t)
        r == ThreadRun(mgr, op, n, head, now)
    IN /\ UNCHANGED <<sessVars, histVars, regVars, cmdVars, wtVars, fileVars, childVars, sizeVars>>
       /\ thr[t].pc = "idle"
       /\ IF op = "create" THEN mgr.store[n] = Nil ELSE mgr.store[n] # Nil
       /\ r.info # Nil
       /\ mgr' = r.m
       /\ thr' = [thr EXCEPT ![t] = [pc |-> "loaded", op |-> op,
                                     info |-> r.info, data |-> mgr.store]]
       /\ UNCHANGED <<held, live, head, now, mgrOut, want, refs>>

\* The thread goes on: the record is changed in the loaded document and
\* save() replaces the file with it.
ThreadSave(t) ==
    LET n == SessionOf(t)
        doc == Modified(thr[t].data, thr[t].op, thr[t].info)
    IN /\ UNCHANGED <<sessVars, histVars, regVars, cmdVars, wtVars, fileVars, childVars, sizeVars>>
       /\ thr[t].pc = "loaded"
       /\ mgr' = [mgr EXCEPT !.store = doc]
       /\ want' = [want EXCEPT ![n] = doc[n]]
       /\ thr' = [thr EXCEPT ![t] = IdleThread]
       /\ UNCHANGED <<held, live, head, now, mgrOut, refs>>

\* ----------------------------------------------- two merges at a time
\* POST /worktrees/{name}/merge runs manager.merge on an executor thread; two
\* requests for different sessions run two merges in one repository. What a
\* commit holds is the set of sessions whose work is in it: the base is {},
\* the tip of the branch of session n is {n}.

Tip(n) == {n}

\* git merge --squash <branch> and commit, or git merge --no-ff <branch>, in
\* a checkout of commit c
Merged(c, n) == c \cup Tip(n)

\* f"conductor/merge-tmp-{int(time.time())}" of the merge on thread t
TmpBranch(t) == <<"merge-tmp", t>>

EmptyRefs == [target |-> {}, branches |-> {}, tmp |-> {}]

\* Two sessions with work on their branches, both finalized.
TwoBranches == [target |-> {}, branches |-> Names, tmp |-> {}]

\* merge up to "git worktree add -b <tmp_branch> <tmp_wt_dir> <target>": the
\* temporary worktree is a checkout of the target branch as it is now. The
\* command fails when the branch exists, which is when the other merge
\* began in the same second (sameSecond) and has not cleaned up yet:
\* CalledProcessError, a failed MergeResult.
MergeAdd(t, strategy, sameSecond) ==
    LET n == SessionOf(t)
    IN /\ UNCHANGED <<sessVars, histVars, regVars, cmdVars, wtVars, mgrVars, fileVars, childVars, sizeVars>>
       /\ thr[t].pc = "idle"
       /\ n \in refs.branches
       /\ IF sameSecond /\ refs.tmp # {}
          THEN /\ thr' = [thr EXCEPT ![t].info = Result(FALSE, "git", strategy)]
               /\ UNCHANGED refs
          ELSE /\ thr' = [thr EXCEPT ![t] = [pc |-> "added", op |-> strategy,
                                             info |-> Nil,
                                             data |-> [head |-> refs.target,
                                                       tmp |-> TmpBranch(t)]]]
               /\ refs' = [refs EXCEPT !.tmp = @ \cup {TmpBranch(t)}]
       /\ UNCHANGED want

\* The strategy block: the session branch is merged in the temporary
\* worktree; on a conflict the finally block cleans up and merge returns a
\* failed MergeResult.
MergeStrategy(t, ok) ==
    /\ UNCHANGED <<sessVars, histVars, regVars, cmdVars, wtVars, mgrVars, fileVars, childVars, sizeVars>>
    /\ thr[t].pc = "added"
    /\ IF ok
       THEN /\ thr' = [thr EXCEPT ![t].pc = "committed",
                                  ![t].data.head = Merged(@, SessionOf(t))]
            /\ UNCHANGED refs
       ELSE /\ thr' = [thr EXCEPT ![t] = [IdleThread EXCEPT
                                   !.info = Result(FALSE, "conflict", thr[t].op)]]
            /\ refs' = [refs EXCEPT !.tmp = @ \ {thr[t].data.tmp}]
    /\ UNCHANGED want

\* rev-parse HEAD in the temporary worktree and
\* git update-ref refs/heads/<target> <merge_commit>
MergeUpdateRef(t) ==
    /\ UNCHANGED <<sessVars, histVars, regVars, cmdVars, wtVars, mgrVars, fileVars, childVars, sizeVars>>
    /\ thr[t].pc = "committed"
    /\ refs' = [refs EXCEPT !.target = thr[t].data.head]
    /\ thr' = [thr EXCEPT ![t].pc = "updated"]
    /\ UNCHANGED want

\* The finally block, then remove(info, force=True), which deletes the
\* session branch with -d or -D, and the MergeResult with success=True
MergeReturn(t) ==
    /\ UNCHANGED <<sessVars, histVars, regVars, cmdVars, wtVars, mgrVars, fileVars, childVars, sizeVars>>
    /\ thr[t].pc = "updated"
    /\ refs' = [refs EXCEPT !.tmp = @ \ {thr[t].data.tmp},
                            !.branches = @ \ {SessionOf(t)}]
    /\ thr' = [thr EXCEPT ![t] = [pc |-> "done", op |-> thr[t].op,
                                  info |-> Result(TRUE, "merged", thr[t].op),
                                  data |-> Nil]]
    /\ UNCHANGED want

\* The user commits on the target branch in the main checkout.
UserCommit ==
    /\ UNCHANGED <<sessVars, histVars, regVars, cmdVars, wtVars, mgrVars, fileVars, childVars, sizeVars>>
    /\ "user" \notin refs.target
    /\ refs' = [refs EXCEPT !.target = @ \cup {"user"}]
    /\ UNCHANGED <<thr, want>>

\* ------------------------------------------------------ terminal size
\* A size a request leaves out (None) is 0: "rows or 24" and "if rows and
\* cols" treat the two alike.

DEFAULT_ROWS == 24
DEFAULT_COLS == 80

RowValues == {DEFAULT_ROWS, 30, 40}
ColValues == {DEFAULT_COLS, 100, 120}

\* The values of RunRequest.source and ResizeRequest.source; "unset" is None
Sources == {"unset", "cli", "dashboard"}

\* "rows or 24", "cols or 80"
OrDefault(v, d) == IF v = 0 THEN d ELSE v

\* "if rows and cols and source == 'cli'" of SessionRegistry.create
RecordsInitialSize(r, c, src) == r # 0 /\ c # 0 /\ src = "cli"

\* SessionRegistry.create as far as the terminal size goes: Session.__init__
\* sets rows, cols = 24, 80 and no source, start spawns the PTY with
\* (rows or 24, cols or 80), and the size is recorded by resize(rows, cols,
\* "cli") for the CLI only.
CreateWithSize(r, c, src) ==
    /\ UNCHANGED <<sessVars, histVars, regVars, cmdVars, wtVars, mgrVars, fileVars, childVars, thrVars>>
    /\ ptyState = "none"
    /\ ptyState' = "open"
    /\ IF RecordsInitialSize(r, c, src)
       THEN /\ rows' = OrDefault(r, DEFAULT_ROWS)
            /\ cols' = OrDefault(c, DEFAULT_COLS)
            /\ resize_source' = "cli"
            /\ ptySize' = <<rows', cols'>>
       ELSE /\ rows' = DEFAULT_ROWS
            /\ cols' = DEFAULT_COLS
            /\ resize_source' = "unset"
            /\ ptySize' = <<OrDefault(r, DEFAULT_ROWS), OrDefault(c, DEFAULT_COLS)>>

\* Session.resize, called by POST /sessions/{id}/resize (with the request's
\* source) and by the stream reader (without one); pty.resize does nothing
\* on a closed PTY
Resize(r, c, src) ==
    /\ UNCHANGED <<sessVars, histVars, regVars, cmdVars, wtVars, mgrVars, fileVars, childVars, thrVars>>
    /\ ptyState # "none"
    /\ rows' = r
    /\ cols' = c
    /\ resize_source' = IF src # "unset" THEN src ELSE resize_source
    /\ ptySize' = IF ptyState = "open" THEN <<r, c>> ELSE ptySize
    /\ UNCHANGED ptyState

\* The session exits or is removed: pty.close()
PtyClose ==
    /\ UNCHANGED <<sessVars, histVars, regVars, cmdVars, wtVars, mgrVars, fileVars, childVars, thrVars>>
    /\ ptyState = "open"
    /\ ptyState' = "closed"
    /\ UNCHANGED <<rows, cols, resize_source, ptySize>>

\* No session whose size is followed.
NoSize ==
    /\ rows = DEFAULT_ROWS
    /\ cols = DEFAULT_COLS
    /\ resize_source = "unset"
    /\ ptySize = Nil
    /\ ptyState = "none"

\* No manager call is running on a worker thread.
NoThreads ==
    /\ thr = [t \in Threads |-> IdleThread]
    /\ want = [n \in Names |-> Nil]
    /\ refs = EmptyRefs

\* No repository under management.
NoManager ==
    /\ mgr = EmptyRepo
    /\ held = [n \in Names |-> Nil]
    /\ live = {}
    /\ head = 0
    /\ now = 0
    /\ mgrOut = Nil

\* No state file, and no save or load yet.
NoFile ==
    /\ wfile = Missing
    /\ tmpfile = Missing
    /\ leftover = {}
    /\ savePc = "idle"
    /\ saveData = Nil
    /\ saveOut = Nil
    /\ saveOld = Nil
    /\ nSaves = 0
    /\ rd = Nil

Init ==
    /\ SessionStarted
    /\ RegistryEmpty
    /\ NoCommand
    /\ NoWorktree
    /\ NoManager
    /\ NoFile
    /\ termHandler = "default"
    /\ NoThreads
    /\ NoSize

\* Steps of the child, the read drivers, the monitor and hard kill.
Engine ==
    \/ ChildExit
    \/ OnReadable
    \/ OnReadableEIO
    \/ WinReadLoop
    \/ RunPosted
    \/ MonitorPoll
    \/ MonitorExit
    \/ Kill
    \/ Cleanup

\* The session with its stream connections; the output carries no token and
\* the configuration is left alone.
Next ==
    \/ ChildWrite(FALSE)
    \/ Engine
    \/ \E c \in Clients : StreamAccept(c)
    \/ \E c \in Clients : StreamSnapshot(c)
    \/ \E c \in Clients : StreamSubscribe(c)
    \/ \E c \in Clients : WriterGet(c)
    \/ \E c \in Clients : StreamEnd(c)

Spec == Init /\ [][Next]_vars

\* The stream handlers as the event loop runs them: a handler suspended in
\* "await ws.accept()" or "await ws.send_bytes(buffer)" is resumed, a writer
\* whose queue holds an item takes it, and a writer that has taken None
\* closes the socket, which ends the handler. A client that is being
\* streamed to need never go away, and an empty queue makes the writer send
\* a keepalive every 30 s and wait again: neither is a step that must come.
WriterDone(c) ==
    /\ cpc[c] = "closing"
    /\ StreamEnd(c)

FairStream ==
    \A c \in Clients :
        /\ WF_vars(StreamSnapshot(c))
        /\ WF_vars(StreamSubscribe(c))
        /\ WF_vars(WriterGet(c))
        /\ WF_vars(WriterDone(c))

SpecLate == Init /\ [][Next]_vars /\ FairStream

\* The session without stream connections: output with resume tokens,
\* graceful stop and admin changes of the buffer cap.
NextSess ==
    \/ \E isTok \in BOOLEAN : ChildWrite(isTok)
    \/ Engine
    \/ Interrupt
    \/ EscalateTimer
    \/ SaveUserConfig

SpecSess == Init /\ [][NextSess]_vars

\* The child has received the SIGTERM of the escalation timer and does not
\* ignore it, or the kill was taskkill /F: it dies.
ChildKilled ==
    /\ escKills > 0
    /\ drv = "win" \/ termHandler = "default"
    /\ ChildExit

\* A session whose child may have chosen to ignore SIGTERM.
InitStop ==
    /\ SessionStarted
    /\ RegistryEmpty
    /\ NoCommand
    /\ NoWorktree
    /\ NoManager
    /\ NoFile
    /\ termHandler \in {"default", "ignore"}
    /\ NoThreads
    /\ NoSize

\* The event loop runs every callback and timer that is ready, and a child
\* that was killed dies; nothing makes a child exit on its own.
FairStop ==
    /\ WF_vars(OnReadable)
    /\ WF_vars(OnReadableEIO)
    /\ WF_vars(WinReadLoop)
    /\ WF_vars(RunPosted)
    /\ WF_vars(MonitorPoll)
    /\ WF_vars(MonitorExit)
    /\ WF_vars(Cleanup)
    /\ WF_vars(EscalateTimer)
    /\ WF_vars(ChildKilled)

SpecStop == InitStop /\ [][NextSess]_vars /\ FairStop

\* The session with its stream connections and graceful stop: what a create
\* over a live name meets when the session under it is 'stopping'.
NextEvict ==
    \/ Next
    \/ Interrupt
    \/ EscalateTimer

SpecEvict == Init /\ [][NextEvict]_vars

\* SessionRegistry.__init__ on a sessions directory left by earlier runs:
\* for each name no file, the file of a session that exited with a token, or
\* a file that cannot be read.
InitReg ==
    /\ SessionStarted
    /\ drv = "unix"
    /\ disk \in [Names -> {Nil, <<"exited", <<0>>>>, Unreadable}]
    /\ resumable = LoadResumable(disk)
    /\ sessions = [n \in Names |-> 0]
    /\ sobj = [s \in Sids |-> NoSession]
    /\ removing = {}
    /\ waitFor = [s \in Sids |-> {}]
    /\ reply = Nil
    /\ NoCommand
    /\ NoWorktree
    /\ NoManager
    /\ NoFile
    /\ termHandler = "default"
    /\ NoThreads
    /\ NoSize

\* The registry's operations, the exits of its sessions, and restarts.
NextReg ==
    \/ \E n \in Names, ok \in BOOLEAN : Create(n, ok)
    \/ \E n \in Names : CreateConflict(n)
    \/ \E n \in Names : CreateOverStopped(n)
    \/ \E n \in Names : Remove(n)
    \/ \E s \in Sids, then \in {"remove", "create"}, ok \in BOOLEAN :
           RemoveEnd(s, then, ok)
    \/ \E n \in Names, ok \in BOOLEAN : Resume(n, ok)
    \/ \E n \in Names : DismissResumable(n)
    \/ \E n \in Names : GracefulStop(n)
    \/ \E s \in Sids : EscalateKill(s)
    \/ \E s \in Sids, hasTok \in BOOLEAN : SessionExit(s, hasTok)
    \/ Restart

SpecReg == InitReg /\ [][NextReg]_vars

\* Two worker threads, each running manager calls for its own session.
InitThr ==
    /\ SessionStarted
    /\ drv = "unix"
    /\ RegistryEmpty
    /\ NoCommand
    /\ NoWorktree
    /\ NoManager
    /\ NoFile
    /\ termHandler = "default"
    /\ NoThreads
    /\ NoSize

NextThr ==
    \/ \E t \in Threads, op \in ThreadOps : ThreadLoad(t, op)
    \/ \E t \in Threads : ThreadSave(t)

SpecThr == InitThr /\ [][NextThr]_vars

\* Two finalized sessions with work on their branches, and a merge request
\* for each.
InitMrg ==
    /\ SessionStarted
    /\ drv = "unix"
    /\ RegistryEmpty
    /\ NoCommand
    /\ NoWorktree
    /\ NoManager
    /\ NoFile
    /\ termHandler = "default"
    /\ thr = [t \in Threads |-> IdleThread]
    /\ want = [n \in Names |-> Nil]
    /\ refs = TwoBranches
    /\ NoSize

NextMrg ==
    \/ \E t \in Threads, strategy \in {"squash", "merge"},
          sameSecond \in BOOLEAN : MergeAdd(t, strategy, sameSecond)
    \/ \E t \in Threads, ok \in BOOLEAN : MergeStrategy(t, ok)
    \/ \E t \in Threads : MergeUpdateRef(t)
    \/ \E t \in Threads : MergeReturn(t)
    \/ UserCommit

SpecMrg == InitMrg /\ [][NextMrg]_vars

\* One session from its create on, and the resize calls made on it.
InitSize ==
    /\ SessionStarted
    /\ drv = "unix"
    /\ RegistryEmpty
    /\ NoCommand
    /\ NoWorktree
    /\ NoManager
    /\ NoFile
    /\ termHandler = "default"
    /\ NoThreads
    /\ NoSize

NextSize ==
    \/ \E r \in RowValues \cup {0}, c \in ColValues \cup {0}, src \in Sources :
          CreateWithSize(r, c, src)
    \/ \E r \in RowValues, c \in ColValues, src \in Sources : Resize(r, c, src)
    \/ PtyClose

SpecSize == InitSize /\ [][NextSize]_vars

\* The registry's calls with what they answer, and the exits of its
\* sessions.
NextCall ==
    \/ \E n \in Names, ok \in BOOLEAN : Create(n, ok)
    \/ \E n \in Names : CreateConflict(n)
    \/ \E n \in Names : CreateOverStopped(n)
    \/ \E n \in Names : Remove(n)
    \/ \E s \in Sids, then \in {"remove", "create"}, ok \in BOOLEAN :
           RemoveEnd(s, then, ok)
    \/ \E n \in Names, ok \in BOOLEAN : ResumeCall(n, ok)
    \/ \E n \in Names : ResumeNotFound(n)
    \/ \E n \in Names : GracefulStop(n)
    \/ \E s \in Sids, hasTok \in BOOLEAN : SessionExit(s, hasTok)

SpecCall == InitReg /\ [][NextCall]_vars

\* A session created with a command of the user's: the executable of a
\* policy record followed by any words, the flag among them.
InitResume ==
    /\ SessionStarted
    /\ drv = "unix"
    /\ RegistryEmpty
    /\ policy \in {"token", "command"}
    /\ original \in
         {<<IF policy = "token" THEN "claude" ELSE "codex">> \o rest :
            rest \in SeqsUpTo(OtherWords \cup {RESUME_FLAG}, MaxArgs)}
    /\ command = original
    /\ lastToken = ""
    /\ cycles = 0
    /\ NoWorktree
    /\ NoManager
    /\ NoFile
    /\ termHandler = "default"
    /\ NoThreads
    /\ NoSize

NextResume == \E t \in Tokens : ExitAndResume(t)

SpecResume == InitResume /\ [][NextResume]_vars

\* A worktree just created for a live session.
InitWt ==
    /\ SessionStarted
    /\ drv = "unix"
    /\ RegistryEmpty
    /\ NoCommand
    /\ wt = NewWorktree
    /\ mres = Nil
    /\ nMerges = 0
    /\ NoManager
    /\ NoFile
    /\ termHandler = "default"
    /\ NoThreads
    /\ NoSize

NextWt ==
    \/ AgentCommit
    \/ TargetAdvance
    \/ SessionEnds
    \/ WorktreeDirRemoved
    \/ \E strategy \in Strategies, fail \in FailPoints,
          rmTmp \in BOOLEAN, delTmp \in BOOLEAN,
          rmWt \in BOOLEAN, delBr \in BOOLEAN :
            Merge(strategy, fail, rmTmp, delTmp, rmWt, delBr)

SpecWt == InitWt /\ [][NextWt]_vars

\* WorktreeManager.__init__ on a repository without worktrees and an empty
\* state store.
InitMgr ==
    /\ SessionStarted
    /\ drv = "unix"
    /\ RegistryEmpty
    /\ NoCommand
    /\ NoWorktree
    /\ NoManager
    /\ NoFile
    /\ termHandler = "default"
    /\ NoThreads
    /\ NoSize

NextMgr ==
    \/ \E n \in WtNames, gitOk \in BOOLEAN : WtCreate(n, gitOk)
    \/ \E n \in WtNames, src \in {"held", "fresh"} : Finalize(n, src)
    \/ \E n \in WtNames, src \in {"held", "fresh"} : GetStatus(n, src)
    \/ \E n \in WtNames : UpdateActivity(n)
    \/ \E n \in WtNames, force \in BOOLEAN, rm \in RemoveOutcomes :
          WtRemove(n, force, rm)
    \/ \E n \in WtNames, ok \in BOOLEAN, rm \in RemoveOutcomes :
          MergeOutcome(n, ok, rm)
    \/ \E wsOk \in BOOLEAN : Reconcile(wsOk)
    \/ \E maxAge \in 0..1, dry \in BOOLEAN, rm \in RemoveOutcomes :
          Gc(maxAge, dry, rm)
    \/ \E n \in WtNames : SessionGone(n)
    \/ \E n \in WtNames : AgentWork(n)
    \/ HeadAdvance
    \/ Tick
    \/ \E n \in WtNames, i \in Suffixes : DirVanishes(WorktreePath(n, i))
    \/ RepoVanishes

SpecMgr == InitMgr /\ [][NextMgr]_vars

\* The server starts on a state store left by earlier runs: each session
\* name has no record, or the record of its first worktree in one of the
\* states the operations leave a record in (an 'orphaned' one has lost its
\* directory); nobody holds an info object yet.
InitGc ==
    /\ SessionStarted
    /\ drv = "unix"
    /\ RegistryEmpty
    /\ NoCommand
    /\ NoWorktree
    /\ NoFile
    /\ termHandler = "default"
    /\ NoThreads
    /\ NoSize
    /\ held = [n \in Names |-> Nil]
    /\ head = 0
    /\ mgrOut = Nil
    /\ now \in 0..MaxTime
    /\ live \in SUBSET Names
    /\ \E st \in [Names -> {"none", "active", "finalized", "orphaned"}],
          la \in [Names -> 0..MaxTime],
          dr \in [Names -> BOOLEAN],
          um \in [Names -> BOOLEAN] :
          /\ \A n \in Names :
                /\ la[n] <= now
                /\ st[n] = "none" => la[n] = 0 /\ ~dr[n] /\ ~um[n]
                /\ st[n] = "orphaned" => ~dr[n]
          /\ LET has == {n \in Names : st[n] # "none"}
             IN mgr = [repo |-> TRUE,
                       store |-> [n \in Names |->
                           IF n \in has
                           THEN Info(n, BranchName(n, 1), WorktreePath(n, 1),
                                     0, st[n], la[n])
                           ELSE Nil],
                       dirs |-> {WorktreePath(n, 1) : n \in {x \in has : dr[x]}},
                       reg |-> {WorktreePath(n, 1) : n \in has},
                       branches |-> {BranchName(n, 1) : n \in has},
                       unmerged |-> {BranchName(n, 1) : n \in {x \in has : um[x]}}]

\* What runs at server start and from the gc route, and what the
\* environment does meanwhile.
NextGc ==
    \/ \E wsOk \in BOOLEAN : Reconcile(wsOk)
    \/ \E maxAge \in 0..1, dry \in BOOLEAN, rm \in RemoveOutcomes :
          Gc(maxAge, dry, rm)
    \/ \E n \in Names : SessionGone(n)
    \/ Tick
    \/ \E n \in Names : DirVanishes(WorktreePath(n, 1))
    \/ RepoVanishes

SpecGc == InitGc /\ [][NextGc]_vars

\* The state file as the server finds it: missing, a document of an earlier
\* run, or content that is not a document (edited by hand, damaged).
InitFile ==
    /\ SessionStarted
    /\ drv = "unix"
    /\ RegistryEmpty
    /\ NoCommand
    /\ NoWorktree
    /\ NoManager
    /\ termHandler = "default"
    /\ NoThreads
    /\ NoSize
    /\ wfile \in {Missing, Doc(0)} \cup Malformed
    /\ tmpfile = Missing
    /\ leftover = {}
    /\ savePc = "idle"
    /\ saveData = Nil
    /\ saveOut = Nil
    /\ saveOld = Nil
    /\ nSaves = 0
    /\ rd = Nil

NextFile ==
    \/ Load
    \/ \E ok \in BOOLEAN : SaveMkstemp(ok)
    \/ \E ok \in BOOLEAN : SaveDump(ok)
    \/ \E ok \in BOOLEAN : SaveReplace(ok)
    \/ Crash

SpecFile == InitFile /\ [][NextFile]_vars

\* =============================================================== properties

\* The last 4 KiB of the buffer hold a resume token.
TailHasToken ==
    \E i \in 1..Len(Tail_n(buffer, TAIL_BYTES)) :
        Tail_n(buffer, TAIL_BYTES)[i] \in tok

\* The PTY chunks waiting on the queue of connection c.
QueueChunks(c) == SelectSeq(queue[c], IsChunk)

\* C1: no observer sees status = exited with resume_id = nil while the tail
\* of the buffered output holds a token matching the resume pattern.
C1_NoExitedWithoutToken ==
    (status = "exited" /\ TailHasToken) => resume_id # Nil

\* C2: once the session has ended (monitor exit or hard kill), every queue
\* that was in the subscriber set at that moment holds the None sentinel
\* until its consumer takes it, whatever the queue's fill level was.
C2_SentinelOnEveryQueue ==
    \A c \in closedFor :
        cpc[c] = "streaming" => \E i \in 1..Len(queue[c]) : queue[c][i] = NoneItem

\* C3: nothing is put on a subscriber queue after the None sentinel: the
\* sentinel is the last item of the queue that holds it, and a queue whose
\* consumer has taken the sentinel stays empty.
C3_NothingAfterSentinel ==
    \A c \in Clients :
        /\ \A i \in 1..Len(queue[c]) :
               queue[c][i] = NoneItem => i = Len(queue[c])
        /\ cpc[c] = "closing" => queue[c] = <<>>

\* C7: the rolling buffer holds at most BUFFER_MAX_BYTES bytes and is
\* exactly the most recent bytes appended so far.
C7_BufferWithinCap ==
    /\ Len(buffer) <= BUFFER_MAX_BYTES
    /\ \A i \in 1..Len(buffer) : buffer[i] = nAppended - Len(buffer) + i

\* The chunks a connection is still to dequeue come in the order of the PTY
\* output, after everything it has dequeued, each one whole and none twice.
InOrder(c) ==
    LET qs == QueueChunks(c)
    IN \A i \in 1..Len(qs) :
           /\ Contiguous(qs[i])
           /\ qs[i][1] > (IF i = 1 THEN lastLive[c] ELSE Last(qs[i - 1]))

\* All of them start after byte number `at`.
StartAfter(c, at) ==
    \A i \in 1..Len(QueueChunks(c)) : QueueChunks(c)[i][1] > at

\* C8 as stated: the chunks a subscriber dequeues are an order-preserving
\* subsequence, without duplicates, of the chunks read from the PTY after
\* it subscribed.
C8_SubsequenceOfLaterReads ==
    \A c \in Watched : InOrder(c) /\ StartAfter(c, readAt[c])

\* C8 amended: the chunks a subscriber dequeues are an order-preserving
\* subsequence, without duplicates, of the chunks passed to _broadcast after
\* it subscribed (never reordered, never repeated).
C8_SubsequenceOfLaterBroadcasts ==
    \A c \in Watched : InOrder(c) /\ StartAfter(c, subAt[c])

\* C8 witness: a connection that subscribed in mid-stream has dequeued one
\* chunk and has the next one waiting.
C8_Witness ==
    \E c \in Watched :
        subAt[c] > 0 /\ lastLive[c] > 0 /\ QueueChunks(c) # <<>>

\* What put_nowait leaves on a queue offered the items one after another.
RECURSIVE PutEach(_, _)
PutEach(q, items) ==
    IF items = <<>> THEN q
    ELSE PutEach(IF Len(q) < QUEUE_MAXSIZE THEN Append(q, Head(items)) ELSE q,
                 Tail(items))

\* The items the session fans out in the step, and the PTY chunk among them
\* that the read path has just read (<<>> when there is none).
FannedOut ==
    IF monPc = "yield" /\ monPc' = "done"
        THEN DrainChunks \o <<ExitedText, NoneItem>>
    ELSE IF drv = "unix" /\ Len(ptyOut') < Len(ptyOut)
        THEN <<SubSeq(ptyOut, 1, Len(ptyOut) - Len(ptyOut'))>>
    ELSE IF posted # <<>> /\ posted' = Tail(posted) /\ Head(posted)[1] = "broadcast"
        THEN <<Head(posted)[2]>>
    ELSE <<>>

\* C9: in every fan-out each subscriber with room receives the chunk and a
\* subscriber whose queue is full loses it, whatever the state of the other
\* queues; the rolling buffer holds the chunk all the same.
C9_SlowConsumerIsolation ==
    [][FannedOut # <<>> =>
         /\ \A c \in Clients :
                queue'[c] = IF c \in subscribers
                            THEN PutEach(queue[c], FannedOut) ELSE queue[c]
         /\ \A i \in 1..Len(FannedOut) :
                IsChunk(FannedOut[i]) /\ i = Len(FannedOut) =>
                    Last(buffer') = Last(FannedOut[i])
      ]_vars

\* C9 witness: one subscriber's queue is full of older chunks while the
\* other subscriber holds a chunk that was fanned out after them.
C9_Witness ==
    \E a, b \in Clients :
        /\ a # b
        /\ {a, b} \subseteq subscribers
        /\ Len(queue[a]) = QUEUE_MAXSIZE
        /\ \A i \in 1..Len(queue[a]) : IsChunk(queue[a][i])
        /\ \E j \in 1..Len(queue[b]) :
               /\ IsChunk(queue[b][j])
               /\ queue[b][j][1] > Last(Last(queue[a]))

\* C10: the first live chunk a connection receives starts right after the
\* last byte of the buffer snapshot it was sent: no gap, no duplicate.
C10_NoGapAfterSnapshot ==
    \A c \in Watched :
        (cpc[c] = "streaming" /\ lastLive[c] = 0 /\ QueueChunks(c) # <<>>)
            => Head(QueueChunks(c))[1] = snapEnd[c] + 1

\* What the registry holds under a name: the projection of the live session,
\* or the resumable metadata, or nothing.
Entry(n) == IF sessions[n] # 0 THEN ToDict(sobj[sessions[n]]) ELSE resumable[n]

ExitedWithToken(n) ==
    Entry(n) # Nil /\ Entry(n)[1] = "exited" /\ Entry(n)[2] # Nil

\* C4: for every name, it is in the resumable map iff its metadata file
\* exists, iff the session has status exited and a resume_id.
C4_ResumableIffFileIffExited ==
    \A n \in Names :
        /\ (resumable[n] # Nil) <=> (disk[n] # Nil)
        /\ (disk[n] # Nil) <=> ExitedWithToken(n)

\* C5: no name is in both the live map and the resumable map (each map is
\* a function of the name, so it holds one entry per name at most).
C5_NamesDisjoint ==
    \A n \in Names : ~(sessions[n] # 0 /\ resumable[n] # Nil)

\* C5 witness: a name whose earlier session exited with a token is live
\* again (it went from the live map to resumable and back).
C5_Witness ==
    \E n \in Names, s \in Sids :
        /\ sessions[n] # 0
        /\ sessions[n] # s
        /\ sobj[s].name = n
        /\ sobj[s].status = "exited"
        /\ sobj[s].rid # Nil

\* C6: when the process of a session in the live map exits, the callback
\* takes the name out of the live map; with a token the name is resumable
\* and its file holds the exited projection with that token, without one the
\* name is in neither map and has no file.
C6_ExitCallbackOutcome ==
    [][\A s \in Sids :
         (/\ sobj[s].mon = "alive"
          /\ sobj'[s].status = "exited"
          /\ sessions[sobj[s].name] = s)
         => LET n == sobj[s].name
                rid == sobj'[s].rid
            IN /\ sessions'[n] = 0
               /\ IF rid # Nil
                  THEN /\ resumable'[n] = <<"exited", rid>>
                       /\ disk'[n] = <<"exited", rid>>
                  ELSE /\ resumable'[n] = Nil
                       /\ disk'[n] = Nil
      ]_vars

\* C6 witness: a graceful stop that escalated to the timeout kill has
\* resolved to a resumable entry, and another one to no entry at all.
C6_Witness ==
    \E s, t \in Sids :
        /\ sobj[s].status = "exited" /\ sobj[s].esc /\ sobj[s].rid # Nil
        /\ resumable[sobj[s].name] = <<"exited", sobj[s].rid>>
        /\ disk[sobj[s].name] = <<"exited", sobj[s].rid>>
        /\ sobj[t].status = "exited" /\ sobj[t].esc /\ sobj[t].rid = Nil
        /\ sobj[t].name # sobj[s].name
        /\ sessions[sobj[t].name] = 0
        /\ resumable[sobj[t].name] = Nil
        /\ disk[sobj[t].name] = Nil

AllowedStatusMoves ==
    { <<"starting", "running">>, <<"running", "stopping">>,
      <<"running", "exited">>, <<"running", "killed">>,
      <<"stopping", "exited">>, <<"stopping", "killed">> }

\* C12: the status only moves along starting -> running -> stopping ->
\* (exited | killed), or from running straight to exited or killed; exited
\* and killed are never left, so a killed session does not become exited.
C12_StatusMoves ==
    [][status' # status => <<status, status'>> \in AllowedStatusMoves]_vars

\* C12 witness: a session that was stopping has been hard-killed; its child
\* is dead, remove has finished, the timer has fired, and it is still killed.
C12_Witness ==
    /\ status = "killed"
    /\ ~procAlive
    /\ killPc = "done"
    /\ escPc = "fired"

\* C13: a create for a name whose live session is running is answered with
\* a conflict and changes nothing: the live map, the resumable map, every
\* session and every metadata file are as they were.
C13_CreateOnRunningRejected ==
    [][\A n \in Names :
         (/\ sessions[n] # 0
          /\ sobj[sessions[n]].status = "running"
          /\ reply' # Nil /\ reply'[1] = "create" /\ reply'[2] = n)
         => /\ reply'[3] = "conflict"
            /\ UNCHANGED <<sessions, resumable, disk, sobj, removing>>
      ]_vars

\* C13 witness: a create has just been rejected for a name that is live and
\* running while the other name has a resumable entry and its file.
C13_Witness ==
    \E n, m \in Names :
        /\ reply = <<"create", n, "conflict">>
        /\ sessions[n] # 0
        /\ sobj[sessions[n]].status = "running"
        /\ disk[n] = <<"running", Nil>>
        /\ m # n
        /\ resumable[m] # Nil
        /\ disk[m] = resumable[m]

\* Positions of a flag word that is followed by another word.
FlagPairs(cmd) == {i \in 1..(Len(cmd) - 1) : cmd[i] = RESUME_FLAG}

\* C14: after any number of exit-with-token -> resume cycles of a
\* token-based policy, the command has exactly one flag/token pair, at its
\* end, holding the latest token, after the rest of the original command.
C14_OneResumePairAtEnd ==
    (policy = "token" /\ cycles >= 1) =>
        /\ Len(command) >= 2
        /\ SubSeq(command, Len(command) - 1, Len(command))
               = <<RESUME_FLAG, lastToken>>
        /\ FlagPairs(command) = {Len(command) - 1}
        /\ SubSeq(command, 1, Len(command) - 2) = StripFlag(original, RESUME_FLAG)

\* C15: with a policy record that has a resume_command, the session started
\* by resume runs exactly that command.
C15_ResumeCommandVerbatim ==
    (policy = "command" /\ cycles >= 1) => command = RESUME_COMMAND

\* The step in which remove(name), called for a hard stop of session s,
\* returns.
HardStopReturns(s) ==
    /\ <<s, "remove">> \in removing
    /\ <<s, "remove">> \notin removing'
    /\ sobj'[s].status = "killed"

C17_ResumableEqualsLoad ==
    resumable = LoadResumable(disk)

\* The step in which a merge call returns.
MergeReturns == nMerges' = nMerges + 1

\* C18: a merge that returns success=true leaves no record, no session
\* branch, no session worktree directory, no temporary worktree or branch,
\* and the target ref at the commit the strategy produced.
C18_SuccessLeavesNothingBehind ==
    [][(MergeReturns /\ mres'.success) =>
          /\ ~wt'.rec
          /\ wt'.branch = NoRef
          /\ ~wt'.dir
          /\ ~wt'.tmpDir
          /\ ~wt'.tmpBranch
          /\ wt'.target =
               CASE mres'.strategy = "squash" -> SquashCommit(wt.target, wt.branch)
                 [] mres'.strategy = "merge" -> MergeCommit(wt.target, wt.branch)
                 [] OTHER -> RebasedTip(wt.target, wt.branch)]_vars

\* C19: a merge that returns success=false after it got past the active
\* and nothing-to-merge checks leaves no temporary worktree or branch and
\* the record, the session's worktree and branch and the target ref as they
\* were.
C19_FailureLeavesAllAsItWas ==
    [][(MergeReturns /\ ~mres'.success
                     /\ mres'.message \notin {"active", "nothing"}) =>
          /\ ~wt'.tmpDir
          /\ ~wt'.tmpBranch
          /\ wt'.rec = wt.rec
          /\ wt'.dir = wt.dir
          /\ wt'.branch = wt.branch
          /\ wt'.target = wt.target]_vars

\* C20: merge on a record of an active session returns success=false and
\* changes nothing.
C20_ActiveSessionRefused ==
    [][(MergeReturns /\ wt.active) =>
          /\ ~mres'.success
          /\ wt' = wt]_vars

\* A merge of an active session with commits to merge has been refused.
C20_Witness ==
    /\ mres # Nil
    /\ mres.message = "active"
    /\ wt.active
    /\ CountCommitsAhead(wt) > 0
    /\ wt.rec /\ wt.dir /\ ~wt.tmpDir /\ ~wt.tmpBranch

\* C21: every record in the state store has a branch that starts with
\* "conductor/" and a worktree_path under .conductor-worktrees, and when
\* create writes a record neither its branch nor its path existed before.
C21_RecordBranchAndPathFresh ==
    [][\A n \in Names :
        mgr'.store[n] # Nil =>
            /\ mgr'.store[n].branch[1] = BRANCH_PREFIX
            /\ mgr'.store[n].worktree_path[1] = WORKTREE_DIR_NAME
            /\ (mgrOut' # Nil /\ mgrOut'.op = "create" /\ ~mgrOut'.raised
                /\ mgrOut'.name = n) =>
                   /\ mgr'.store[n].branch \notin mgr.branches
                   /\ mgr'.store[n].worktree_path \notin mgr.dirs
                   /\ mgr'.store[n].worktree_path \notin mgr.reg]_vars

\* create has written a record whose branch needed a suffix.
C21_Witness ==
    /\ mgrOut # Nil /\ mgrOut.op = "create" /\ ~mgrOut.raised
    /\ mgr.store["a"] # Nil
    /\ mgr.store["a"].branch = BranchName("a", 2)
    /\ BranchName("a", 1) \in mgr.branches

\* C22: the base_commit of the record of a session name, once stored, is
\* never changed by a later operation, a later create for the same name
\* included.
C22_BaseCommitNeverChanges ==
    [][\A n \in Names :
        (mgr.store[n] # Nil /\ mgr'.store[n] # Nil) =>
            mgr'.store[n].base_commit = mgr.store[n].base_commit]_vars

\* The same, for every operation but create.
C22_BaseCommitKeptButByCreate ==
    [][\A n \in Names :
        (/\ mgr.store[n] # Nil
         /\ mgr'.store[n] # Nil
         /\ ~(mgrOut' # Nil /\ mgrOut'.op = "create")) =>
            mgr'.store[n].base_commit = mgr.store[n].base_commit]_vars

\* What C23 says of the records after a reconcile that went from store m0
\* to store m1 with the directories dirs and the live set lv.
ReconcileDone(m0, m1, lv) ==
    \A n \in Names :
        m0.store[n] # Nil =>
            LET d == m0.store[n]
                gone == d.worktree_path \notin m0.dirs
            IN /\ m1.store[n] # Nil
               /\ gone => m1.store[n].status = "orphaned"
               /\ (~gone /\ d.status = "active" /\ d.session_id \notin lv) =>
                      m1.store[n].status = "finalized"
               /\ (~gone /\ d.status = "active" /\ d.session_id \in lv) =>
                      m1.store[n] = d

\* C23: after reconcile every record without its directory is 'orphaned',
\* every record that was 'active' with its directory and without a live
\* session is 'finalized', records of live sessions are left 'active', and
\* reconcile does not raise.
C23_ReconcileMarksAndNeverRaises ==
    [][(mgrOut' # Nil /\ mgrOut'.op = "reconcile") =>
          /\ ~mgrOut'.raised
          /\ ReconcileDone(mgr, mgr', live)]_vars

\* The same of a reconcile whose writes to the state store succeed, in
\* every reachable state.
C23_ReconcileWithWritableStore ==
    LET r == ReconcileRun(mgr, live, now, TRUE)
    IN ~r.raised /\ ReconcileDone(mgr, r.m, live)

\* Whether gc may remove the record d at time t under max_age_days maxAge.
GcMayRemove(d, lv, t, maxAge) ==
    /\ d.session_id \notin lv
    /\ \/ d.status = "orphaned"
       \/ d.status \in {"finalized", "stale"} /\ d.last_activity < t - maxAge

\* C24: gc neither removes, modifies nor reports the record of a live
\* session, nor touches its directory and branch; a record that gc removes
\* is not live and is 'orphaned', or 'finalized' or 'stale' and older than
\* max_age_days (so never 'active').
C24_GcSparesLiveAndYoung ==
    [][(mgrOut' # Nil /\ mgrOut'.op = "gc") =>
          \A n \in Names :
             mgr.store[n] # Nil =>
                /\ n \in live =>
                      /\ mgr'.store[n] = mgr.store[n]
                      /\ \A a \in mgrOut'.actions : a[1] # n
                      /\ (mgr.store[n].worktree_path \in mgr.dirs) =
                         (mgr.store[n].worktree_path \in mgr'.dirs)
                      /\ (mgr.store[n].branch \in mgr.branches) =
                         (mgr.store[n].branch \in mgr'.branches)
                /\ mgr'.store[n] # mgr.store[n] =>
                      /\ mgr'.store[n] = Nil
                      /\ GcMayRemove(mgr.store[n], live, now, mgrOut'.maxAge)
                      /\ mgr.store[n].status # "active"
                /\ (\E a \in mgrOut'.actions : a[1] = n) =>
                      GcMayRemove(mgr.store[n], live, now, mgrOut'.maxAge)]_vars

\* A gc that removed the record of "b" and passed over the record of the
\* live session "a", which is 'orphaned'.
C24_Witness ==
    /\ mgrOut # Nil /\ mgrOut.op = "gc" /\ ~mgrOut.dry
    /\ mgrOut.actions = {<<"b", "removed">>}
    /\ mgr.store["b"] = Nil
    /\ "a" \in live
    /\ mgr.store["a"] # Nil
    /\ mgr.store["a"].status = "orphaned"

\* The names whose records a gc that is not a dry run removes from the
\* state m.
GcWouldRemove(m, lv, t, maxAge, rm) ==
    {n \in Names : /\ m.store[n] # Nil
                   /\ GcRun(m, lv, t, maxAge, FALSE, rm).m.store[n] = Nil}

\* C25: a dry run of gc leaves the state store, the directories and the
\* branches as they are, and reports as 'would remove' exactly the records
\* that gc without dry_run removes from the same state.
C25_DryRunReportsWhatGcRemoves ==
    [][(mgrOut' # Nil /\ mgrOut'.op = "gc" /\ mgrOut'.dry) =>
          /\ mgr' = mgr
          /\ \A a \in mgrOut'.actions : a[2] = "would remove"
          /\ \A rm \in RemoveOutcomes :
                {a[1] : a \in mgrOut'.actions} =
                    GcWouldRemove(mgr, live, now, mgrOut'.maxAge, rm)]_vars

\* The first part alone: a dry run changes nothing, and with the
\* repository in place its report is what gc removes.
C25_DryRunChangesNothing ==
    [][(mgrOut' # Nil /\ mgrOut'.op = "gc" /\ mgrOut'.dry) =>
          /\ mgr' = mgr
          /\ \A a \in mgrOut'.actions : a[2] = "would remove"
          /\ mgr.repo =>
                \A rm \in RemoveOutcomes :
                   {a[1] : a \in mgrOut'.actions} =
                       GcWouldRemove(mgr, live, now, mgrOut'.maxAge, rm)]_vars

\* What C26 says of a load that read the content src and of the save that
\* ended last, with bad the contents that are to read as the empty state.
FileContract(bad) ==
    /\ wfile[1] # "partial"
    /\ rd # Nil =>
          /\ rd.src[1] # "partial"
          /\ rd.src[1] = "doc" => ~rd.raised /\ rd.value = rd.src
          /\ rd.src \in bad => ~rd.raised /\ rd.value = EmptyState
    /\ saveOut = "raised" => wfile = saveOld /\ tmpfile = Missing
    /\ saveOut = "crashed" => wfile = saveOld
    /\ saveOut = "ok" => wfile = saveData

\* C26: a load, wherever it falls between the steps of a save and after a
\* crash inside one, returns the complete previous or the complete new
\* document; a missing or malformed file reads as the empty state; a save
\* that fails leaves the previous document and no temp file.
C26_CompleteDocumentOrEmpty == FileContract({Missing} \cup Malformed)

\* The same with "malformed" taken as text that is not JSON.
C26_AtomicReplace == FileContract({Missing, <<"not json">>})

\* A load fell inside a save and returned the previous document.
C26_ReadDuringSave ==
    /\ savePc = "dumped"
    /\ rd # Nil
    /\ rd.src = Doc(1)
    /\ saveData = Doc(2)
    /\ tmpfile = Doc(2)

\* C28: a session that entered 'stopping' through a graceful stop leaves it:
\* the child exits or the escalation timer kills it, the monitor sees the
\* exit, and the status becomes 'exited' or 'killed'.
C28_StoppingEnds == (status = "stopping") ~> (status \in {"exited", "killed"})

\* The same for a child that dies of the signal the timer sends.
C28_StoppingEndsIfKillable ==
    (status = "stopping" /\ (drv = "win" \/ termHandler = "default"))
        ~> (status \in {"exited", "killed"})

\* C27, the old session: when create hard-removes the 'stopping' session
\* it found under the name, that session's monitor is cancelled and each of
\* its subscribers is sent the end-of-stream sentinel.
C27_EvictedSessionTerminated ==
    [][(status = "stopping" /\ status' = "killed") =>
          /\ monPc' \notin {"poll", "yield"}
          /\ ~readerOn'
          /\ \A c \in subscribers :
                queue'[c] # <<>> /\ Last(queue'[c]) = NoneItem]_vars

\* The step in which the create that evicted Session s resumes from remove
\* and installs Session t.
EvictingCreateReturns(s, t) ==
    /\ <<s, "create">> \in removing
    /\ <<s, "create">> \notin removing'
    /\ sobj[t].status = "none"
    /\ sobj'[t].status = "running"

\* C27, the registry: a create over a live name whose session is not
\* running pops and kills that session at once and cancels its monitor;
\* when it returns the live map holds the new session under the name, the
\* name is not resumable and its metadata file describes the new session.
C27_EvictingCreateInstalls ==
    [][\A s \in Sids :
          /\ (<<s, "create">> \in removing' \ removing) =>
                /\ sobj[s].status # "running"
                /\ sessions'[sobj[s].name] = 0
                /\ sobj'[s].status = "killed"
                /\ sobj'[s].mon # "alive"
          /\ \A t \in Sids : EvictingCreateReturns(s, t) =>
                /\ sessions'[sobj[s].name] = t
                /\ sobj'[t].name = sobj[s].name
                /\ sobj'[s].status = "killed"
                /\ sobj'[s].mon # "alive"
                /\ resumable'[sobj[s].name] = Nil
                /\ disk'[sobj[s].name] = ToDict(sobj'[t])]_vars

\* What C29 says of a remove(info, force) of the record d that went from
\* the state m0 to m1; dirGone is whether the directory has to be gone.
RemoveContract(d, force, lv, m0, m1, raised, dirGone) ==
    IF d.session_id \in lv /\ ~force
    THEN raised /\ m1 = m0
    ELSE /\ ~raised
         /\ dirGone => d.worktree_path \notin m1.dirs
         /\ m1.store[d.name] = Nil
         /\ (d.branch \in m0.unmerged /\ ~force) => d.branch \in m1.branches

\* C29: remove refuses, changing nothing, when the session is active and
\* force is false; otherwise it removes the directory and drops the record,
\* and with force false a branch with unmerged commits is kept.
C29_RemoveDropsRecord ==
    [][(mgrOut' # Nil /\ mgrOut'.op = "remove") =>
          RemoveContract(mgr.store[mgrOut'.name], mgrOut'.force, live,
                         mgr, mgr', mgrOut'.raised, TRUE)]_vars

\* The same while the repository directory exists, the directory clause
\* for a removal that did not fail.
C29_RemoveInExistingRepo ==
    [][(mgrOut' # Nil /\ mgrOut'.op = "remove" /\ mgr.repo) =>
          RemoveContract(mgr.store[mgrOut'.name], mgrOut'.force, live,
                         mgr, mgr', mgrOut'.raised, mgrOut'.rm # "fail")]_vars

\* The operation of this step is op and it did not raise.
Did(op) == mgrOut' # Nil /\ mgrOut'.op = op /\ ~mgrOut'.raised

\* What C30 says of the statuses the operations set: create writes
\* 'active', finalize 'finalized' or 'orphaned' by the directory, get_status
\* and reconcile 'orphaned' for a directory that is gone, and only these
\* three take a record out of 'active'.
StatusSetByOperations ==
    \A n \in Names :
       LET d0 == mgr.store[n]
           d1 == mgr'.store[n]
       IN /\ (Did("create") /\ mgrOut'.name = n) => d1.status = "active"
          /\ (Did("finalize") /\ mgrOut'.name = n) =>
                d1.status = IF d1.worktree_path \in mgr.dirs
                            THEN "finalized" ELSE "orphaned"
          /\ (Did("get_status") /\ mgrOut'.name = n
                /\ d1.worktree_path \notin mgr.dirs) => d1.status = "orphaned"
          /\ (Did("reconcile") /\ d0 # Nil
                /\ d0.worktree_path \notin mgr.dirs) => d1.status = "orphaned"
          /\ (d0 # Nil /\ d1 # Nil /\ d0.status = "active"
                /\ d1.status # "active") =>
                \/ Did("finalize") \/ Did("get_status") \/ Did("reconcile")

\* No record goes from 'finalized' or 'orphaned' back to 'active'.
NeverBackToActive ==
    \A n \in Names :
       (/\ mgr.store[n] # Nil
        /\ mgr'.store[n] # Nil
        /\ mgr.store[n].status \in {"finalized", "orphaned"}) =>
           mgr'.store[n].status # "active"

\* C30: a record is 'active' from create until finalize, finalize sets
\* 'finalized' or 'orphaned' by the directory, finalize, get_status and
\* reconcile set 'orphaned' when the directory is gone, and no operation
\* moves a record from 'finalized' or 'orphaned' back to 'active'.
C30_StatusOnlyMovesForward == [][StatusSetByOperations /\ NeverBackToActive]_vars

\* The first three parts alone.
C30_StatusSetByOperations == [][StatusSetByOperations]_vars

\* The last part for every operation but the three that can do it: a later
\* create for the name, and update_activity and get_status, which write
\* back the info object of their caller, status included.
C30_BackToActiveOnlyByWriteBack ==
    [][\/ NeverBackToActive
       \/ Did("create")
       \/ Did("update_activity")
       \/ Did("get_status")]_vars

\* A session that was started and neither killed nor exited.
StartedNotKilled(s) == sobj[s].status \in {"running", "stopping"}

\* C31: under every interleaving of create, resume and remove requests,
\* every session that was started and not killed is the entry the live map
\* holds for its name.
C31_StartedSessionIsLiveEntry ==
    \A s \in Sids : StartedNotKilled(s) => sessions[sobj[s].name] = s

\* C31, its second half: the step in which a suspended remove of session s
\* completes leaves the file of the name as it is when the name is held by
\* another session, and does not put a third session in that one's place.
C31_RemoveSparesNewerSession ==
    [][\A s \in Sids, then \in {"remove", "create"} :
          LET n == sobj[s].name
          IN (/\ <<s, then>> \in removing
              /\ <<s, then>> \notin removing'
              /\ sessions[n] # 0
              /\ sobj'[s].status = "killed")
             => /\ disk'[n] = disk[n]
                /\ sessions'[n] = sessions[n]]_vars

\* The step in which create(n), called on a name that was not live, fails
\* in the spawn.
CreateFails(n) == reply' = <<"create", n, "failed">>

\* The step in which a create that evicted session s fails in the spawn:
\* its remove returns and no session is built.
EvictingCreateFails(s) ==
    /\ <<s, "create">> \in removing
    /\ <<s, "create">> \notin removing'
    /\ sobj' = sobj

\* C32: a create that fails in the PTY spawn leaves the registry as it was
\* before the call: a resumable entry of the name is still there and equals
\* its file, a non-running live entry is still present, and no live entry
\* is added.
C32_FailedCreateChangesNothing ==
    [][/\ \A n \in Names : CreateFails(n) =>
              /\ resumable'[n] = resumable[n]
              /\ resumable[n] # Nil => disk'[n] = resumable'[n]
              /\ sessions' = sessions
              /\ sobj' = sobj
       /\ \A s \in Sids : EvictingCreateFails(s) =>
              /\ sessions'[sobj[s].name] = s
              /\ sobj'[s].status # "killed"]_vars

\* C32, what holds: a create that fails in the spawn adds no live entry and
\* builds no session, and leaves the file of the name as it was unless it
\* evicted a session.
C32_FailedCreateAddsNothing ==
    [][/\ \A n \in Names : CreateFails(n) =>
              /\ sessions' = sessions
              /\ sobj' = sobj
              /\ disk' = disk
       /\ \A s \in Sids : EvictingCreateFails(s) =>
              /\ sessions' = sessions
              /\ disk'[sobj[s].name] = Nil]_vars

\* The step in which resume(n) fails in the spawn of the resumed command.
ResumeFails(n) == reply' = <<"resume", n, "failed">>

\* C33: a resume that fails after it located the resumable entry leaves the
\* entry, its token and its file in place; a resume of a name with no
\* resumable entry answers not-found and changes nothing.
C33_FailedResumeStillResumable ==
    [][\A n \in Names :
          /\ ResumeFails(n) =>
                /\ resumable'[n] = resumable[n]
                /\ disk'[n] = disk[n]
          /\ (reply' = <<"resume", n, "notfound">>) =>
                UNCHANGED <<sessions, resumable, disk, sobj, removing>>]_vars

\* C33, what holds: a live session is never exited, so resume of a name
\* with no resumable entry always takes the not-found way out.
C33_NoExitedLiveSession ==
    \A n \in Names : sessions[n] # 0 => sobj[sessions[n]].status # "exited"

\* C34: when two manager calls on different worker threads write records of
\* different sessions concurrently, both effects are in the state file: the
\* record of a session is what the latest finished write for that session
\* left, whatever was written for the other session.
C34_NoWriteLost ==
    \A t \in Threads :
        thr[t].pc = "idle" => mgr.store[SessionOf(t)] = want[SessionOf(t)]

\* C35: when two merges of different session branches into the same target
\* run concurrently and both return success, the target branch holds the
\* changes of both sessions.
C35_BothMergesInTarget ==
    \A t \in Threads :
        (thr[t].pc = "done" /\ thr[t].info.success)
            => SessionOf(t) \in refs.target

\* The directory or branch x is named by a record of the state store.
Tracked(m, x) ==
    \E n \in Names :
        /\ m.store[n] # Nil
        /\ x \in {m.store[n].worktree_path, m.store[n].branch}

\* The manager call of the step, "" for a step that is none.
OpOf(out) == IF out = Nil THEN "" ELSE out.op

\* Every step but those of the operations in `dropping` keeps each tracked
\* directory and branch that still exists tracked.
StaysTracked(dropping) ==
    OpOf(mgrOut') \notin dropping =>
        \A x \in (mgr.dirs \cap mgr'.dirs) \cup (mgr.branches \cap mgr'.branches) :
            Tracked(mgr, x) => Tracked(mgr', x)

\* C36: a worktree directory or conductor/ branch that a record tracks stays
\* tracked until remove (called directly, by a merge or by gc) drops it; a
\* create for a name that has a record does not replace that record while
\* its directory and branch exist.
C36_TrackedUntilRemoved ==
    [][StaysTracked({"remove", "merge", "gc"})]_vars

\* C36, what holds: create is the one operation besides remove after which
\* a directory or branch that was tracked is tracked no more.
C36_TrackedButByCreate ==
    [][StaysTracked({"remove", "merge", "gc", "create"})]_vars

\* C37: after create and any sequence of resize calls the stored rows and
\* cols of the session equal the size last applied to the PTY, whatever the
\* source; and a resize without a source leaves resize_source as it was.
C37_StoredSizeIsPtySize ==
    ptyState # "none" => ptySize = <<rows, cols>>

\* C37, what holds: every resize on an open PTY leaves the stored size equal
\* to the PTY's, and resize_source changes only to the source of a resize
\* that names one.
C37_ResizeKeepsSizeAndSource ==
    [][/\ (ptyState = "open" /\ ptyState' = "open"
             /\ <<rows', cols', ptySize'>> # <<rows, cols, ptySize>>)
          => ptySize' = <<rows', cols'>>
       /\ (ptyState # "none" /\ resize_source' # resize_source)
          => resize_source' \in Sources \ {"unset"}]_vars

\* C38: a connection whose queue was made by subscribe() after the session
\* had run _broadcast_close (it is a subscriber of an exited or killed
\* session and was not one when the sentinel went out) does not stay in its
\* writer loop for ever: its writer comes to take None and to leave the loop.
LateSubscriber(c) ==
    /\ status \in {"exited", "killed"}
    /\ c \in subscribers
    /\ c \notin closedFor

C38_LateSubscriberSeesEnd ==
    \A c \in Clients : LateSubscriber(c) ~> (cpc[c] # "streaming")

====
